---- MODULE Spec2Model ----
(***************************************************************************)
(* The timetable generator of SAMPA, in its three revisions:               *)
(*   src/sampa/timetable-generator.js   (definitions without suffix)       *)
(*   src/unnamed/part_000               (definitions with suffix 0)        *)
(*   src/unnamed/part_002               (definitions with suffix 2)        *)
(* and the page that asks for a timetable, src/unnamed/part_001 (app.js),  *)
(* with its worker, src/TT/generator.worker.js.                            *)
(* A run of generate() is a sequence of steps: one step per phase, per     *)
(* subject, per class and per iteration of a loop of _scheduleAllForSubject*)
(* (one call of _scheduleLessonBlock and what the caller does with its     *)
(* result).  In part_002 a step is a phase, a subject or a class, with the  *)
(* whole of _scheduleLesson for that class.  Math.random() is a            *)
(* nondeterministic choice: a shuffle (sort(() => Math.random() - 0.5))    *)
(* can produce every order.                                                *)
(***************************************************************************)
EXTENDS Integers, Sequences, FiniteSets, TLC

\* ---------------------------------------------------------------- bounds
\* Number of days of the week in schoolData.days.
NumDays == 2
\* Number of lesson slots per day in a division's lessonSlots.
NumSlots == 3
\* How many times generate() is called again on an instance that has returned.
MaxRegenerations == 1
\* How many messages the worker's queue holds before a further click is not modelled.
MaxPending == 2

\* ------------------------------------------------------------ small helpers
Range(s) == {s[i] : i \in DOMAIN s}

Includes(s, x) == \E i \in DOMAIN s : s[i] = x

\* Every order of the elements of the sequence s (what a random sort can give).
Shuffles(s) ==
  {[i \in DOMAIN s |-> s[f[i]]] : f \in {g \in [DOMAIN s -> DOMAIN s] : Range(g) = DOMAIN s}}

\* ------------------------------------------------------------- class names
Digits == <<"0", "1", "2", "3", "4", "5", "6", "7", "8", "9">>

IsDigit(ch) == Includes(Digits, ch)

DigitVal(ch) == (CHOOSE i \in DOMAIN Digits : Digits[i] = ch) - 1

Letters ==
  {"A", "B", "C", "D", "E", "F", "G", "H", "I", "J", "K", "L", "M", "N", "O", "P", "Q",
   "R", "S", "T", "U", "V", "W", "X", "Y", "Z", "a", "b", "c", "d", "e", "f", "g", "h",
   "i", "j", "k", "l", "m", "n", "o", "p", "q", "r", "s", "t", "u", "v", "w", "x", "y", "z"}

\* The number of digits of s from position i on: the match of (\d+).
RECURSIVE DigitRun(_, _)
DigitRun(s, i) ==
  IF i <= Len(s) /\ IsDigit(s[i]) THEN 1 + DigitRun(s, i + 1) ELSE 0

\* The number of blanks of s from position i on: the match of \s*.
RECURSIVE BlankRun(_, _)
BlankRun(s, i) ==
  IF i <= Len(s) /\ s[i] = " " THEN 1 + BlankRun(s, i + 1) ELSE 0

\* parseInt(digits, 10) of the n digits of s that start at position i.
RECURSIVE ParseDigits(_, _, _)
ParseDigits(s, i, n) ==
  IF n = 0 THEN 0 ELSE ParseDigits(s, i, n - 1) * 10 + DigitVal(s[i + n - 1])

\* className.match(/^Year\s*(\d+)/i): the year, or -1 when there is no match.
YearOfDigits(s, i, n) == IF n > 0 THEN ParseDigits(s, i, n) ELSE -1

YearFrom(s, i) == YearOfDigits(s, i, DigitRun(s, i))

MatchYear(s) ==
  IF /\ Len(s) >= 4
     /\ s[1] \in {"Y", "y"} /\ s[2] \in {"E", "e"} /\ s[3] \in {"A", "a"} /\ s[4] \in {"R", "r"}
  THEN YearFrom(s, 5 + BlankRun(s, 5))
  ELSE -1

\* className.match(/^(\d+)[A-Z]?$/i): the year, or -1 when there is no match.
WholeName(s, n) ==
  IF n > 0 /\ (Len(s) = n \/ (Len(s) = n + 1 /\ s[n + 1] \in Letters))
  THEN ParseDigits(s, 1, n)
  ELSE -1

MatchDigits(s) == WholeName(s, DigitRun(s, 1))

\* if (!match) match = className.match(/^(\d+)[A-Z]?$/i)
MatchEither(first, s) == IF first >= 0 THEN first ELSE MatchDigits(s)

\* _getClassDivision: the division of a year (-1: NaN)
divisionOfYear(year) ==
  IF year < 0 THEN "unknown"
  ELSE IF year >= 1 /\ year <= 3 THEN "lowerPrimary"
  ELSE IF year >= 4 /\ year <= 6 THEN "upperPrimary"
  ELSE IF year >= 7 /\ year <= 9 THEN "lowerSecondary"
  ELSE IF year >= 10 /\ year <= 11 THEN "upperSecondary"
  ELSE "unknown"

\* _getClassDivision of src/sampa/timetable-generator.js
getClassDivision(className) == divisionOfYear(MatchEither(MatchYear(className), className))

\* ------------------------------------------------------------------ input
\* The input of a run (data.json: schoolData and constraints).  An object is a
\* sequence of entries, in the order of its keys; a teacher is a list of names
\* (a single name is the list of that name); an event's periodId is the list
\* periodIds of that one period; an absent name or class is the empty value.
NoTeacher == ""

NoClass == <<>>

c1A == <<"1", "A">>

c2A == <<"2", "A">>

c4A == <<"4", "A">>

c5A == <<"5", "A">>

AllDayNames == <<"Monday", "Tuesday", "Wednesday", "Thursday", "Friday">>

\* schoolData.days
DayList == SubSeq(AllDayNames, 1, NumDays)

\* schoolData.periods: period 0 is the arrival period
PeriodList ==
  [i \in 1..(NumSlots + 3) |-> [id |-> i - 1, type |-> IF i = 1 THEN "arrival" ELSE "normal"]]

\* A division's day: lesson slots 1, 2, break in 3, lesson slots from 4 on, then lunch.
DaySchedule ==
  [lessonSlots |-> SelectSeq([i \in 1..(NumSlots + 1) |-> i], LAMBDA p : p # 3),
   breakPeriod |-> 3,
   lunchPeriod |-> NumSlots + 2]

Entry(s, p) == [subject |-> s, periods |-> p]

Taught(s, t) == [subject |-> s, teacher |-> t]

BaseSchoolData ==
  [days |-> DayList,
   periods |-> PeriodList,
   divisionSchedules |-> [lowerPrimary |-> DaySchedule, upperPrimary |-> DaySchedule],
   subjects |-> [lowerPrimary |-> <<>>, upperPrimary |-> <<>>],
   teachers |-> <<>>,
   specialEvents |-> <<>>,
   perClassSchedules |-> <<>>]

BaseConstraints ==
  [subjectRestrictions |-> <<>>,
   singleResourceSubjects |-> <<>>,
   doublePeriodSubjects |-> <<>>,
   workloadLimits |-> [maxTeacherPeriodsPerDay |-> 2, maxTeacherPeriodsPerDayException |-> 3,
                       maxClassPeriodsPerDay |-> 2],
   teacherWorkloadExceptions |-> <<>>,
   teacherAvailability |-> <<>>,
   peSynchronization |-> <<>>]

\* Two classes of one division share the Math teacher, whose daily cap is 2.
SharedTeacher ==
  [schoolData |->
     [BaseSchoolData EXCEPT
        !.subjects = [lowerPrimary |-> <<Entry("Math", 3)>>, upperPrimary |-> <<>>],
        !.teachers = <<[className |-> c1A, subjects |-> <<Taught("Math", <<"Ann">>)>>],
                       [className |-> c2A, subjects |-> <<Taught("Math", <<"Ann">>)>>]>>],
   constraints |-> BaseConstraints]

\* Two classes, each with its own teachers, need the ICT lab and the science lab.
SharedRooms ==
  [schoolData |->
     [BaseSchoolData EXCEPT
        !.subjects = [lowerPrimary |-> <<Entry("ICT", 1), Entry("Lab", 1)>>,
                      upperPrimary |-> <<>>],
        !.teachers = <<[className |-> c1A,
                        subjects |-> <<Taught("ICT", <<"Ann">>), Taught("Lab", <<"Cid">>)>>],
                       [className |-> c2A,
                        subjects |-> <<Taught("ICT", <<"Bob">>), Taught("Lab", <<"Dan">>)>>]>>],
   constraints |->
     [BaseConstraints EXCEPT !.singleResourceSubjects = <<"ICT", "Lab">>]]

\* One class with a strict-double subject (Art), P.E., a subject nobody teaches
\* (Music) and an assembly in the first lesson slot of the first day.
StrictDoubles ==
  [schoolData |->
     [BaseSchoolData EXCEPT
        !.subjects = [lowerPrimary |-> <<>>,
                      upperPrimary |-> <<Entry("Art", 2), Entry("P.E.", 2), Entry("Music", 1)>>],
        !.teachers = <<[className |-> c4A,
                        subjects |-> <<Taught("Art", <<"Eve">>), Taught("P.E.", <<"Fay", "Gus">>)>>]>>,
        !.specialEvents = <<[day |-> "Monday", periodIds |-> <<1>>, name |-> "Assembly",
                             appliesTo |-> [all |-> TRUE, divisions |-> <<>>]]>>],
   constraints |->
     [BaseConstraints EXCEPT
        !.doublePeriodSubjects =
           <<[subject |-> "Art", divisions |-> <<"upperPrimary">>, strict |-> "true",
              structure |-> [doubles |-> 0, singles |-> 0]]>>]]

\* One class with a mixed-structure subject (Eng: one double and one single), a
\* subject restricted to the first day (Robotics) and a part-time teacher.
MixedStructure ==
  [schoolData |->
     [BaseSchoolData EXCEPT
        !.subjects = [lowerPrimary |-> <<Entry("Eng", 3), Entry("Robotics", 1)>>,
                      upperPrimary |-> <<>>],
        !.teachers = <<[className |-> c1A,
                        subjects |-> <<Taught("Eng", <<"Hal">>), Taught("Robotics", <<"Ida">>)>>]>>],
   constraints |->
     [BaseConstraints EXCEPT
        !.subjectRestrictions = <<[subject |-> "Robotics", days |-> <<"Monday">>]>>,
        !.doublePeriodSubjects =
           <<[subject |-> "Eng", divisions |-> <<"lowerPrimary">>, strict |-> "mixed",
              structure |-> [doubles |-> 1, singles |-> 1]]>>,
        !.teacherWorkloadExceptions = <<"Hal">>,
        !.teacherAvailability =
           <<[teacher |-> "Hal", hasAvailableDays |-> FALSE, availableDays |-> <<>>,
              hasUnavailableDays |-> TRUE, unavailableDays |-> <<"Tuesday">>]>>]]

\* One class whose first day has an assembly in its first two lesson slots, so that
\* a single lesson slot of that day is left.
ShortDay ==
  [schoolData |->
     [BaseSchoolData EXCEPT
        !.subjects = [lowerPrimary |-> <<>>, upperPrimary |-> <<Entry("Math", 4)>>],
        !.teachers = <<[className |-> c5A, subjects |-> <<Taught("Math", <<"Ann">>)>>]>>,
        !.specialEvents = <<[day |-> "Monday", periodIds |-> <<1, 2>>, name |-> "Assembly",
                             appliesTo |-> [all |-> TRUE, divisions |-> <<>>]]>>],
   constraints |->
     [BaseConstraints EXCEPT
        !.workloadLimits = [maxTeacherPeriodsPerDay |-> 3,
                            maxTeacherPeriodsPerDayException |-> 3,
                            maxClassPeriodsPerDay |-> 2]]]

\* Two classes whose P.E. is synchronized.  The P.E. teacher of the first class
\* comes on the first day only, and that class has a subject restricted to the
\* first day, which is scheduled before P.E.
SyncedPE ==
  [schoolData |->
     [BaseSchoolData EXCEPT
        !.subjects = [lowerPrimary |-> <<Entry("Robotics", 1), Entry("P.E.", 2)>>,
                      upperPrimary |-> <<>>],
        !.teachers = <<[className |-> c1A,
                        subjects |-> <<Taught("Robotics", <<"Ida">>), Taught("P.E.", <<"Fay">>)>>],
                       [className |-> c2A, subjects |-> <<Taught("P.E.", <<"Gus">>)>>]>>],
   constraints |->
     [BaseConstraints EXCEPT
        !.subjectRestrictions = <<[subject |-> "Robotics", days |-> <<"Monday">>]>>,
        !.teacherAvailability =
           <<[teacher |-> "Fay", hasAvailableDays |-> TRUE, availableDays |-> <<"Monday">>,
              hasUnavailableDays |-> FALSE, unavailableDays |-> <<>>]>>,
        !.peSynchronization = <<(<<c1A, c2A>>)>>]]

\* One class whose lab subject (ICT, three periods) is restricted to the second
\* day, where its teacher's daily cap of 2 leaves one period for the later phases
\* to try again, and whose Math teacher comes on the first day only.
RestrictedLab ==
  [schoolData |->
     [BaseSchoolData EXCEPT
        !.subjects = [lowerPrimary |-> <<Entry("ICT", 3), Entry("Math", 1)>>,
                      upperPrimary |-> <<>>],
        !.teachers = <<[className |-> c1A,
                        subjects |-> <<Taught("ICT", <<"Ann">>), Taught("Math", <<"Bob">>)>>]>>],
   constraints |->
     [BaseConstraints EXCEPT
        !.subjectRestrictions = <<[subject |-> "ICT", days |-> <<"Tuesday">>]>>,
        !.singleResourceSubjects = <<"ICT">>,
        !.teacherAvailability =
           <<[teacher |-> "Bob", hasAvailableDays |-> TRUE, availableDays |-> <<"Monday">>,
              hasUnavailableDays |-> FALSE, unavailableDays |-> <<>>]>>]]

\* One class with a strict-double subject (Art) of which it needs an odd number
\* of periods, three, and room for all of them.
OddStrict ==
  [schoolData |->
     [BaseSchoolData EXCEPT
        !.subjects = [lowerPrimary |-> <<Entry("Art", 3)>>, upperPrimary |-> <<>>],
        !.teachers = <<[className |-> c1A, subjects |-> <<Taught("Art", <<"Eve">>)>>]>>],
   constraints |->
     [BaseConstraints EXCEPT
        !.doublePeriodSubjects =
           <<[subject |-> "Art", divisions |-> <<"lowerPrimary">>, strict |-> "true",
              structure |-> [doubles |-> 0, singles |-> 0]]>>]]

\* A synchronized P.E. group whose classes are of two divisions, the second of
\* which has an event in the first period of Monday.
MixedGroup ==
  [schoolData |->
     [BaseSchoolData EXCEPT
        !.subjects = [lowerPrimary |-> <<Entry("P.E.", 1)>>, upperPrimary |-> <<Entry("P.E.", 1)>>],
        !.teachers = <<[className |-> c1A, subjects |-> <<Taught("P.E.", <<"Fay">>)>>],
                       [className |-> c4A, subjects |-> <<Taught("P.E.", <<"Gus">>)>>]>>,
        !.specialEvents = <<[day |-> "Monday", periodIds |-> <<1>>, name |-> "Assembly",
                             appliesTo |-> [all |-> FALSE, divisions |-> <<"upperPrimary">>]]>>],
   constraints |->
     [BaseConstraints EXCEPT !.peSynchronization = <<(<<c1A, c4A>>)>>]]

\* Two classes of two divisions and two events whose periods overlap: the
\* Assembly of everybody in periods 1 and 2 of Monday is listed before the Clubs
\* of upperPrimary in periods 2 and 3.
TwoEvents ==
  [schoolData |->
     [BaseSchoolData EXCEPT
        !.subjects = [lowerPrimary |-> <<Entry("Math", 1)>>, upperPrimary |-> <<Entry("Math", 1)>>],
        !.teachers = <<[className |-> c1A, subjects |-> <<Taught("Math", <<"Ann">>)>>],
                       [className |-> c4A, subjects |-> <<Taught("Math", <<"Bob">>)>>]>>,
        !.specialEvents = <<[day |-> "Monday", periodIds |-> <<1, 2>>, name |-> "Assembly",
                             appliesTo |-> [all |-> TRUE, divisions |-> <<>>]],
                            [day |-> "Monday", periodIds |-> <<2, 3>>, name |-> "Clubs",
                             appliesTo |-> [all |-> FALSE, divisions |-> <<"upperPrimary">>]]>>],
   constraints |-> BaseConstraints]

\* Two classes of one division with one Math period each; the Math teacher of
\* the first is on leave (no available day), the teacher of the second is not.
OnLeave ==
  [schoolData |->
     [BaseSchoolData EXCEPT
        !.subjects = [lowerPrimary |-> <<Entry("Math", 1)>>, upperPrimary |-> <<>>],
        !.teachers = <<[className |-> c1A, subjects |-> <<Taught("Math", <<"Ann">>)>>],
                       [className |-> c2A, subjects |-> <<Taught("Math", <<"Bob">>)>>]>>],
   constraints |->
     [BaseConstraints EXCEPT
        !.teacherAvailability =
           <<[teacher |-> "Ann", hasAvailableDays |-> TRUE, availableDays |-> <<>>,
              hasUnavailableDays |-> FALSE, unavailableDays |-> <<>>]>>]]

\* One class whose lab subject (ICT, two periods) is listed both as a restricted
\* subject, with every day allowed, and as a single-resource subject, so that two
\* phases call _scheduleAllForSubject for it.
TwiceListed ==
  [schoolData |->
     [BaseSchoolData EXCEPT
        !.subjects = [lowerPrimary |-> <<Entry("ICT", 2)>>, upperPrimary |-> <<>>],
        !.teachers = <<[className |-> c1A, subjects |-> <<Taught("ICT", <<"Ann">>)>>]>>],
   constraints |->
     [BaseConstraints EXCEPT
        !.subjectRestrictions = <<[subject |-> "ICT", days |-> DayList]>>,
        !.singleResourceSubjects = <<"ICT">>]]

\* Two classes whose P.E. (three periods, a mixed structure of one double and one
\* single) is synchronized.  The P.E. teacher of the first class comes on the
\* first day only, so that the synchronized placement stops after the double.
PartSynced ==
  [schoolData |->
     [BaseSchoolData EXCEPT
        !.subjects = [lowerPrimary |-> <<Entry("P.E.", 3)>>, upperPrimary |-> <<>>],
        !.teachers = <<[className |-> c1A, subjects |-> <<Taught("P.E.", <<"Fay">>)>>],
                       [className |-> c2A, subjects |-> <<Taught("P.E.", <<"Gus">>)>>]>>],
   constraints |->
     [BaseConstraints EXCEPT
        !.doublePeriodSubjects =
           <<[subject |-> "P.E.", divisions |-> <<"lowerPrimary">>, strict |-> "mixed",
              structure |-> [doubles |-> 1, singles |-> 1]]>>,
        !.teacherAvailability =
           <<[teacher |-> "Fay", hasAvailableDays |-> TRUE, availableDays |-> <<"Monday">>,
              hasUnavailableDays |-> FALSE, unavailableDays |-> <<>>]>>,
        !.peSynchronization = <<(<<c1A, c2A>>)>>]]

\* One class whose P.E. (two periods, scheduled as doubles only) has a teacher
\* who is on leave (no available day).
PEOnLeave ==
  [schoolData |->
     [BaseSchoolData EXCEPT
        !.subjects = [lowerPrimary |-> <<Entry("P.E.", 2)>>, upperPrimary |-> <<>>],
        !.teachers = <<[className |-> c1A, subjects |-> <<Taught("P.E.", <<"Fay">>)>>]>>],
   constraints |->
     [BaseConstraints EXCEPT
        !.teacherAvailability =
           <<[teacher |-> "Fay", hasAvailableDays |-> TRUE, availableDays |-> <<>>,
              hasUnavailableDays |-> FALSE, unavailableDays |-> <<>>]>>]]

\* Two classes of two divisions with one Math period each and an event of
\* upperPrimary alone in the first period of Monday.
ForeignEvent ==
  [schoolData |->
     [BaseSchoolData EXCEPT
        !.subjects = [lowerPrimary |-> <<Entry("Math", 1)>>, upperPrimary |-> <<Entry("Math", 1)>>],
        !.teachers = <<[className |-> c1A, subjects |-> <<Taught("Math", <<"Ann">>)>>],
                       [className |-> c4A, subjects |-> <<Taught("Math", <<"Bob">>)>>]>>,
        !.specialEvents = <<[day |-> "Monday", periodIds |-> <<1>>, name |-> "Clubs",
                             appliesTo |-> [all |-> FALSE, divisions |-> <<"upperPrimary">>]]>>],
   constraints |-> BaseConstraints]

\* The school of StrictDoubles in a data.json whose schoolData has no specialEvents
\* key: see eventsListed
NoEventList == [schoolData |-> StrictDoubles.schoolData, constraints |-> StrictDoubles.constraints]

Scenarios ==
  [SharedTeacher |-> SharedTeacher, SharedRooms |-> SharedRooms,
   StrictDoubles |-> StrictDoubles, MixedStructure |-> MixedStructure,
   ShortDay |-> ShortDay, SyncedPE |-> SyncedPE, RestrictedLab |-> RestrictedLab,
   NoEventList |-> NoEventList, OddStrict |-> OddStrict, MixedGroup |-> MixedGroup,
   TwoEvents |-> TwoEvents, OnLeave |-> OnLeave, TwiceListed |-> TwiceListed,
   PartSynced |-> PartSynced, PEOnLeave |-> PEOnLeave,
   ForeignEvent |-> ForeignEvent]

\* ------------------------------------------------------------------ state
VARIABLES
  scenario,            \* which input (schoolData, constraints) the run was given
  timetables,          \* this.timetables[className][day][periodId]
  globalSchedule,      \* this.globalSchedule[day][periodId] = {teachers, resources}
  teacherStats,        \* this.teacherStats[teacher] = {totalPeriods, dailyPeriods}
  unassignedLessons,   \* this.unassignedLessons
  pc,                  \* the next phase of generate()
  subjectQueue,        \* the calls of _scheduleAllForSubject the phase still has to make
  call,                \* _scheduleAllForSubject: subject, allowedDays, scheduleAsDoubleOnly
  classesLeft,         \* _scheduleAllForSubject: classes of the forEach not yet visited
  loop,                \* _scheduleAllForSubject: the loop the current class is in
  lessonDetails,       \* _scheduleAllForSubject: const lessonDetails (className, subject, teacher)
  periodsToSchedule,   \* _scheduleAllForSubject: let periodsToSchedule
  doublesScheduled,    \* _scheduleAllForSubject: let doublesScheduled
  singlesScheduled,    \* _scheduleAllForSubject: let singlesScheduled
  validationPassed,    \* _validateTimetable: let validationPassed
  regenerations,       \* how many times generate() was called again on the same instance
  appPc,               \* app.js: where init() is: "loading", "ready", "failed"; "none": no app
  regenerateBtnDisabled, \* app.js: regenerateBtn.disabled
  statusMessage,       \* app.js: statusMessageContainer.className
  viewMode,            \* app.js: viewModeSelector.value
  appTimetables,       \* app.js: let timetables, the grid of the last result
  unassigned,          \* app.js: const unassigned
  workerInbox,         \* messages posted to the worker that it has not taken yet
  appInbox,            \* events the worker raised that the app has not handled yet
  groupsLeft,          \* _schedulePESynchronization: groups of the forEach from the current one on
  scheduled,           \* _schedulePESynchronization: let scheduled
  seed,                \* the outcomes Math.random is fixed to give; NoSeed: it is free
  firstRun,            \* what the first of two compared runs returned; <<>> before it has
  lookup               \* a class name and the division each _getClassDivision gave for it

vars ==
  <<scenario, timetables, globalSchedule, teacherStats, unassignedLessons, pc,
    subjectQueue, call, classesLeft, loop, lessonDetails, periodsToSchedule,
    doublesScheduled, singlesScheduled, validationPassed, regenerations, appPc,
    regenerateBtnDisabled, statusMessage, viewMode, appTimetables, unassigned,
    workerInbox, appInbox, groupsLeft, scheduled, seed, firstRun, lookup>>

\* The locals of _schedulePESynchronization of part_002
sync == <<groupsLeft, scheduled>>

\* What a comparison of runs, or of the revisions' helpers, holds fixed or keeps
fixture == <<seed, firstRun, lookup>>

\* What lies outside one run of generate(): its caller
caller ==
  <<regenerations, appPc, regenerateBtnDisabled, statusMessage, viewMode, appTimetables,
    unassigned, workerInbox, appInbox, fixture>>

schoolData == Scenarios[scenario].schoolData

constraints == Scenarios[scenario].constraints

\* ----------------------------------------------------------- domain model
\* An empty cell (undefined) and the entries a cell can hold.  A Lesson is the
\* entry {subject, teacher}, which has no type field.
EmptyCell == [type |-> "none", subject |-> "", teacher |-> NoTeacher, name |-> ""]

Lesson(subject, teacher) ==
  [type |-> "lesson", subject |-> subject, teacher |-> teacher, name |-> ""]

Typed(type, name) == [type |-> type, subject |-> "", teacher |-> NoTeacher, name |-> name]

\* Object.keys(this.schoolData.teachers)
allClasses == [i \in DOMAIN schoolData.teachers |-> schoolData.teachers[i].className]

PeriodIds == {PeriodList[i].id : i \in DOMAIN PeriodList}

\* The run-scoped state the placement operations read and write.
Memory == [timetables |-> timetables, globalSchedule |-> globalSchedule,
           teacherStats |-> teacherStats]

\* schoolData.subjects[division]?.[subject]; 0 stands for undefined
needed(division, subject) ==
  IF division \in DOMAIN schoolData.subjects
  THEN LET es == SelectSeq(schoolData.subjects[division], LAMBDA e : e.subject = subject)
       IN IF es = <<>> THEN 0 ELSE es[Len(es)].periods
  ELSE 0

\* _getTeacherForClassSubject
getTeacherForClassSubject(className, subject) ==
  LET cs == SelectSeq(schoolData.teachers, LAMBDA c : c.className = className)
      ts == IF cs = <<>> THEN <<>>
            ELSE SelectSeq(cs[Len(cs)].subjects, LAMBDA e : e.subject = subject)
  IN IF ts = <<>> \/ ts[Len(ts)].teacher = <<>> THEN NoTeacher ELSE ts[Len(ts)].teacher[1]

\* _getAvailableLessonSlots
getAvailableLessonSlots(className, day) ==
  LET division == getClassDivision(className)
  IN IF division \in DOMAIN schoolData.divisionSchedules
     THEN schoolData.divisionSchedules[division].lessonSlots
     ELSE <<>>

\* A _countSubjectOnDay that finds no Lesson of the subject on any day
countsNothing(m, className, subject, day) == 0

\* _countSubjectOnDay
countSubjectOnDay(m, className, subject, day) ==
  Cardinality({p \in DOMAIN m.timetables[className][day] :
                 m.timetables[className][day][p].subject = subject})

\* A _getScheduledPeriods that finds no Lesson of the subject in the grid
scheduledNothing(m, className, subject) == 0

\* _getScheduledPeriods
RECURSIVE SumDays(_, _, _, _)
SumDays(m, className, subject, n) ==
  IF n = 0 THEN 0
  ELSE SumDays(m, className, subject, n - 1)
       + countSubjectOnDay(m, className, subject, schoolData.days[n])

getScheduledPeriods(m, className, subject) ==
  SumDays(m, className, subject, Len(schoolData.days))

\* the teacher's applicable daily cap
maxPeriods(teacher) ==
  IF Includes(constraints.teacherWorkloadExceptions, teacher)
  THEN constraints.workloadLimits.maxTeacherPeriodsPerDayException
  ELSE constraints.workloadLimits.maxTeacherPeriodsPerDay

\* A canAssignLesson without the availability check of lines 143-152
anyDayForTeacher(teacher, day) == Includes(schoolData.days, day)

\* A canAssignLesson without the restriction check of lines 154-158
anyDayForSubject(subject, day) == Includes(schoolData.days, day)

\* canAssignLesson: the teacher availability rule permits the day
availabilityPermits(teacher, day) ==
  \A i \in DOMAIN constraints.teacherAvailability :
    LET rule == constraints.teacherAvailability[i]
    IN rule.teacher = teacher =>
         /\ ~(rule.hasAvailableDays /\ ~Includes(rule.availableDays, day))
         /\ ~(rule.hasUnavailableDays /\ Includes(rule.unavailableDays, day))

\* canAssignLesson: the subject's day restriction permits the day
restrictionPermits(subject, day) ==
  \A i \in DOMAIN constraints.subjectRestrictions :
    LET rule == constraints.subjectRestrictions[i]
    IN rule.subject = subject => Includes(rule.days, day)

\* canAssignLesson: the slot is a lesson slot of the class's division
isLessonSlot(className, day, slot) ==
  Includes(getAvailableLessonSlots(className, day), slot)

\* canAssignLesson: the cell holds no Lesson (an entry without a type field)
notBooked(m, className, day, slot) ==
  m.timetables[className][day][slot].type # "lesson"

\* canAssignLesson: the teacher's count of the day is below the cap
belowDailyCap(m, teacher, day) ==
  teacher \in DOMAIN m.teacherStats =>
    ~(m.teacherStats[teacher].dailyPeriods[day] >= maxPeriods(teacher))

\* canAssignLesson: the teacher is not booked at (day, slot)
teacherFree(m, teacher, day, slot) ==
  teacher \in DOMAIN m.teacherStats =>
    teacher \notin m.globalSchedule[day][slot].teachers

\* canAssignLesson: the ICT lab is free at (day, slot), for the subject ICT
labFree(m, subject, day, slot) ==
  ~(subject = "ICT" /\ m.globalSchedule[day][slot].resources["ICT"] # NoClass)

\* canAssignLesson without the check of the global booking of the teacher
canAssignLessonIgnoringBooking(m, className, subject, teacher, day, slot) ==
  /\ isLessonSlot(className, day, slot)
  /\ notBooked(m, className, day, slot)
  /\ belowDailyCap(m, teacher, day)
  /\ availabilityPermits(teacher, day)
  /\ restrictionPermits(subject, day)
  /\ labFree(m, subject, day, slot)

\* canAssignLesson: the value of .valid
canAssignLesson(m, className, subject, teacher, day, slot) ==
  /\ isLessonSlot(className, day, slot)
  /\ notBooked(m, className, day, slot)
  /\ belowDailyCap(m, teacher, day)
  /\ teacherFree(m, teacher, day, slot)
  /\ availabilityPermits(teacher, day)
  /\ restrictionPermits(subject, day)
  /\ labFree(m, subject, day, slot)

\* An assignLesson that writes the class's cell and leaves the global schedule
\* and the teacher's counters as they are
assignOffTheBooks(m, className, subject, teacher, day, slot) ==
  [m EXCEPT !.timetables[className][day][slot] = Lesson(subject, teacher)]

\* assignLesson
assignLesson(m, className, subject, teacher, day, slot) ==
  [timetables |->
     [m.timetables EXCEPT ![className][day][slot] = Lesson(subject, teacher)],
   globalSchedule |->
     [m.globalSchedule EXCEPT
        ![day][slot].teachers = IF teacher # NoTeacher THEN @ \cup {teacher} ELSE @,
        ![day][slot].resources["ICT"] = IF subject = "ICT" THEN className ELSE @],
   teacherStats |->
     IF teacher # NoTeacher /\ teacher \in DOMAIN m.teacherStats
     THEN [m.teacherStats EXCEPT ![teacher].dailyPeriods[day] = @ + 1]
     ELSE m.teacherStats]

\* _scheduleLessonBlock: some special event lies on (day, slot)
eventAt(day, slot) ==
  \E i \in DOMAIN schoolData.specialEvents :
    /\ schoolData.specialEvents[i].day = day
    /\ Includes(schoolData.specialEvents[i].periodIds, slot)

\* A _scheduleLessonBlock without the filter of lines 194-197
everyLessonSlot(m, className, day, lessonSlots) == lessonSlots

\* _scheduleLessonBlock: availableSlotsOnDay before the shuffle
availableSlotsOnDay(m, className, day, lessonSlots) ==
  SelectSeq(lessonSlots,
            LAMBDA slot : m.timetables[className][day][slot].type = "none"
                          /\ ~eventAt(day, slot))

Min(S) == CHOOSE x \in S : \A y \in S : x <= y

\* ---------------------------------------------------------- Math.random
\* The outcomes of the random sorts.  While Math.random is free a sort can give
\* every order; a seed fixes Math.random so that every sort of classes, of days
\* and of slots gives the order the seed carries.
\* Math.random is not fixed
NoSeed == <<>>

\* A random sort that does not follow the seed: it gives every order
anyOrder(availableSlots) == Shuffles(availableSlots)

\* allClasses.sort(() => Math.random() - 0.5): the classes that can come next
drawClass(left) ==
  IF seed = NoSeed \/ left = {} THEN left
  ELSE {Head(SelectSeq(seed.classes, LAMBDA c : c \in left))}

\* [...allowedDays].sort(() => Math.random() - 0.5): the indexes, among `left`,
\* of the days that can come next
drawDay(allowedDays, left) ==
  IF seed = NoSeed \/ \A i \in left : ~Includes(seed.days, allowedDays[i]) THEN left
  ELSE {i \in left :
          allowedDays[i] = Head(SelectSeq(seed.days,
                                          LAMBDA d : \E j \in left : allowedDays[j] = d))}

\* availableSlotsOnDay.sort(() => Math.random() - 0.5): the orders it can give
drawOrder(availableSlots) ==
  IF seed = NoSeed THEN Shuffles(availableSlots)
  ELSE {SelectSeq(seed.slots, LAMBDA slot : Includes(availableSlots, slot))}

\* _scheduleLessonBlock: the indexes of the slots of `order` that pass canAssignLesson
passing(m, L, day, order) ==
  {i \in DOMAIN order : canAssignLesson(m, L.className, L.subject, L.teacher, day, order[i])}

\* assignLesson for each slot of the sequence `slots`
RECURSIVE assignAll(_, _, _, _)
assignAll(m, L, day, slots) ==
  IF slots = <<>> THEN m
  ELSE assignAll(assignLesson(m, L.className, L.subject, L.teacher, day, Head(slots)),
                 L, day, Tail(slots))

\* _scheduleLessonBlock, numPeriods 1: the slot the scan accepts, if any
scanSingle(order, pass) ==
  IF pass = {} THEN <<>> ELSE <<order[Min(pass)]>>

\* A pair search without the test s2 === s1 + 1: the first two slots that pass
anyTwoPassing(order, pass) ==
  IF Cardinality(pass) < 2 THEN <<>>
  ELSE <<order[Min(pass)], order[Min(pass \ {Min(pass)})]>>

\* _scheduleLessonBlock, numPeriods 2: the first pair of neighbours of `order`
\* with s2 === s1 + 1 of which both pass
scanConsecutive(order, pass) ==
  LET found == {i \in 1..(Len(order) - 1) :
                  order[i + 1] = order[i] + 1 /\ i \in pass /\ (i + 1) \in pass}
  IN IF found = {} THEN <<>> ELSE <<order[Min(found)], order[Min(found) + 1]>>

\* _scheduleLessonBlock, numPeriods 2: the fallback, the first pair i < j of
\* which both pass
scanAnyTwo(order, pass) ==
  IF Cardinality(pass) < 2 THEN <<>>
  ELSE <<order[Min(pass)], order[Min(pass \ {Min(pass)})]>>

\* _scheduleLessonBlock: the slots one day's scan fills, for one order of its
\* available slots (none: the day fails)
slotsToFill(order, pass, numPeriods) ==
  IF Len(order) < numPeriods THEN <<>>
  ELSE IF numPeriods = 1 THEN scanSingle(order, pass)
  ELSE IF numPeriods = 2
  THEN IF scanConsecutive(order, pass) # <<>> THEN scanConsecutive(order, pass)
       ELSE scanAnyTwo(order, pass)
  ELSE <<>>

Placed(m, L, day, slots) ==
  [ok |-> slots # <<>>, m |-> assignAll(m, L, day, slots)]

\* _scheduleLessonBlock: the body of the loop over the days, for one day and one
\* order of its available slots: whether the block was placed, and the state after
tryDay(m, L, day, order, numPeriods) ==
  Placed(m, L, day, slotsToFill(order, passing(m, L, day, order), numPeriods))

\* _scheduleLessonBlock: the results the loop over the shuffled days can give when
\* the days at the indexes `left` of allowedDays are still to be tried
RECURSIVE blockFrom(_, _, _, _, _)
blockFrom(m, L, allowedDays, left, numPeriods) ==
  IF left = {} THEN {[ok |-> FALSE, m |-> m]}
  ELSE UNION {
         LET day == allowedDays[i]
             lessonSlots == getAvailableLessonSlots(L.className, day)
             results == {tryDay(m, L, day, order, numPeriods) :
                           order \in drawOrder(availableSlotsOnDay(m, L.className, day, lessonSlots))}
         IN UNION {IF r.ok THEN {r}
                   ELSE blockFrom(r.m, L, allowedDays, left \ {i}, numPeriods) : r \in results}
         : i \in drawDay(allowedDays, left)}

\* _scheduleLessonBlock: every result (return value and state) a call can have
scheduleLessonBlock(m, L, allowedDays, numPeriods) ==
  blockFrom(m, L, allowedDays, DOMAIN allowedDays, numPeriods)

\* ------------------------------------------------ generate(): the phases
\* A generate() whose steps do not wait for the step before them to return
stepsOverlap == TRUE

\* Every call the running step of generate() made has returned
Idle == subjectQueue = <<>> /\ classesLeft = {} /\ loop = "idle" /\ groupsLeft = <<>>

NoCall == [subject |-> "", allowedDays |-> <<>>, scheduleAsDoubleOnly |-> FALSE]

NoLesson == [className |-> NoClass, subject |-> "", teacher |-> NoTeacher]

Call(subject, allowedDays, scheduleAsDoubleOnly) ==
  [subject |-> subject, allowedDays |-> allowedDays,
   scheduleAsDoubleOnly |-> scheduleAsDoubleOnly]

Unassigned(L, remaining, reason) ==
  [className |-> L.className, subject |-> L.subject, periodsRemaining |-> remaining,
   reason |-> reason]

SetMemory(m) ==
  /\ timetables' = m.timetables
  /\ globalSchedule' = m.globalSchedule
  /\ teacherStats' = m.teacherStats

\* The state after the constructor.
Constructed ==
  /\ timetables = <<>>
  /\ globalSchedule = <<>>
  /\ teacherStats = <<>>
  /\ unassignedLessons = <<>>
  /\ pc = "initialize"
  /\ subjectQueue = <<>>
  /\ call = NoCall
  /\ classesLeft = {}
  /\ loop = "idle"
  /\ lessonDetails = NoLesson
  /\ periodsToSchedule = 0
  /\ groupsLeft = <<>>
  /\ scheduled = 0
  /\ doublesScheduled = 0
  /\ singlesScheduled = 0
  /\ validationPassed = TRUE

\* generate() is called directly, once: there is no app and no worker
\* no class name has been asked about
NoLookup == [className |-> <<>>, sampa |-> "", app |-> "", part002 |-> ""]

\* generate() is run on its own, outside the app
Standalone ==
  /\ regenerations = 0
  /\ appPc = "none"
  /\ regenerateBtnDisabled = FALSE
  /\ statusMessage = ""
  /\ viewMode = "class"
  /\ appTimetables = <<>>
  /\ unassigned = <<>>
  /\ workerInbox = <<>>
  /\ appInbox = <<>>

NoCaller ==
  /\ Standalone
  /\ seed = NoSeed
  /\ firstRun = <<>>
  /\ lookup = NoLookup

Init ==
  /\ NoCaller
  /\ scenario \in {"SharedTeacher", "SharedRooms", "StrictDoubles", "MixedStructure",
                   "RestrictedLab"}
  /\ Constructed

\* _initialize: every teacher named in schoolData.teachers
teacherSet ==
  UNION {UNION {Range(schoolData.teachers[i].subjects[j].teacher) :
                  j \in DOMAIN schoolData.teachers[i].subjects} :
           i \in DOMAIN schoolData.teachers}

\* _initialize: the sum of the required periods of the (class, subject) pairs of a teacher
RECURSIVE SumPeriods(_, _)
SumPeriods(teacher, pairs) ==
  IF pairs = {} THEN 0
  ELSE LET x == CHOOSE y \in pairs : TRUE
       IN (IF getTeacherForClassSubject(allClasses[x[1]], x[2].subject) = teacher
           THEN x[2].periods ELSE 0)
          + SumPeriods(teacher, pairs \ {x})

totalPeriods(teacher) ==
  SumPeriods(teacher,
    UNION {LET division == getClassDivision(allClasses[i])
           IN IF division \in DOMAIN schoolData.subjects
              THEN {<<i, schoolData.subjects[division][k]>> :
                      k \in DOMAIN schoolData.subjects[division]}
              ELSE {}
           : i \in DOMAIN allClasses})

\* An _initialize that creates the tables only where they do not exist yet and
\* keeps the list of diagnostics
InitializeOnce ==
  /\ pc = "initialize"
  /\ unassignedLessons' = unassignedLessons
  /\ timetables' =
       IF timetables # <<>> THEN timetables
       ELSE [c \in Range(allClasses) |->
               [d \in Range(schoolData.days) |-> [p \in PeriodIds |-> EmptyCell]]]
  /\ globalSchedule' =
       IF globalSchedule # <<>> THEN globalSchedule
       ELSE [d \in Range(schoolData.days) |->
               [p \in PeriodIds |-> [teachers |-> {}, resources |-> [ICT |-> NoClass]]]]
  /\ teacherStats' =
       IF teacherStats # <<>> THEN teacherStats
       ELSE [t \in teacherSet |->
               [totalPeriods |-> totalPeriods(t),
                dailyPeriods |-> [d \in Range(schoolData.days) |-> 0]]]
  /\ pc' = "specialEvents"
  /\ UNCHANGED <<caller, sync, scenario, subjectQueue, call, classesLeft, loop, lessonDetails,
                 periodsToSchedule, doublesScheduled, singlesScheduled, validationPassed>>

\* _initialize
Initialize ==
  /\ pc = "initialize"
  /\ unassignedLessons' = <<>>
  /\ timetables' = [c \in Range(allClasses) |->
                      [d \in Range(schoolData.days) |-> [p \in PeriodIds |-> EmptyCell]]]
  /\ globalSchedule' = [d \in Range(schoolData.days) |->
                          [p \in PeriodIds |-> [teachers |-> {}, resources |-> [ICT |-> NoClass]]]]
  /\ teacherStats' = [t \in teacherSet |->
                        [totalPeriods |-> totalPeriods(t),
                         dailyPeriods |-> [d \in Range(schoolData.days) |-> 0]]]
  /\ pc' = "specialEvents"
  /\ UNCHANGED <<caller, sync, scenario, subjectQueue, call, classesLeft, loop, lessonDetails,
                 periodsToSchedule, doublesScheduled, singlesScheduled, validationPassed>>

\* A _scheduleSpecialEvents without the test of the cell: the grid after the
\* events from index i on are written over whatever the cells hold
RECURSIVE overwriteEvents(_, _)
overwriteEvents(tt, i) ==
  IF i > Len(schoolData.specialEvents) THEN tt
  ELSE overwriteEvents(
         [c \in DOMAIN tt |->
            [d \in DOMAIN tt[c] |->
               [p \in DOMAIN tt[c][d] |->
                  IF /\ schoolData.specialEvents[i].day = d
                     /\ \/ schoolData.specialEvents[i].appliesTo.all
                        \/ Includes(schoolData.specialEvents[i].appliesTo.divisions,
                                    getClassDivision(c))
                     /\ Includes(schoolData.specialEvents[i].periodIds, p)
                  THEN Typed("event", schoolData.specialEvents[i].name)
                  ELSE tt[c][d][p]]]],
         i + 1)

\* _scheduleSpecialEvents: the grid after the events from index i on are pinned
RECURSIVE pinEvents(_, _)
pinEvents(tt, i) ==
  IF i > Len(schoolData.specialEvents) THEN tt
  ELSE LET event == schoolData.specialEvents[i]
           applies(c) == \/ event.appliesTo.all
                         \/ Includes(event.appliesTo.divisions, getClassDivision(c))
           pinned == [c \in DOMAIN tt |->
                        [d \in DOMAIN tt[c] |->
                           [p \in DOMAIN tt[c][d] |->
                              IF /\ event.day = d
                                 /\ applies(c)
                                 /\ Includes(event.periodIds, p)
                                 /\ tt[c][d][p].type = "none"
                              THEN Typed("event", event.name)
                              ELSE tt[c][d][p]]]]
       IN pinEvents(pinned, i + 1)

\* _scheduleSpecialEvents
ScheduleSpecialEvents ==
  /\ pc = "specialEvents"
  /\ timetables' = pinEvents(timetables, 1)
  /\ pc' = "restricted"
  /\ UNCHANGED <<caller, sync, scenario, globalSchedule, teacherStats, unassignedLessons,
                 subjectQueue,
                 call, classesLeft, loop, lessonDetails, periodsToSchedule,
                 doublesScheduled, singlesScheduled, validationPassed>>

\* A phase that is a list of calls of _scheduleAllForSubject.
Phase(from, to, calls) ==
  /\ pc = from
  /\ Idle
  /\ subjectQueue' = calls
  /\ pc' = to
  /\ UNCHANGED <<caller, sync, scenario, timetables, globalSchedule, teacherStats,
                 unassignedLessons,
                 call, classesLeft, loop, lessonDetails, periodsToSchedule,
                 doublesScheduled, singlesScheduled, validationPassed>>

\* _scheduleRestrictedSubjects
ScheduleRestrictedSubjects ==
  Phase("restricted", "singleResource",
        [i \in DOMAIN constraints.subjectRestrictions |->
           Call(constraints.subjectRestrictions[i].subject,
                constraints.subjectRestrictions[i].days, FALSE)])

\* _scheduleSingleResourceSubjects
ScheduleSingleResourceSubjects ==
  Phase("singleResource", "strictDouble",
        [i \in DOMAIN constraints.singleResourceSubjects |->
           Call(constraints.singleResourceSubjects[i], schoolData.days, FALSE)])

\* _scheduleStrictDoublePeriodSubjects
ScheduleStrictDoublePeriodSubjects ==
  LET rules == SelectSeq(constraints.doublePeriodSubjects,
                         LAMBDA r : r.strict = "true" /\ r.subject # "P.E.")
  IN Phase("strictDouble", "pe",
           [i \in DOMAIN rules |-> Call(rules[i].subject, schoolData.days, TRUE)])

\* _schedulePE
SchedulePE ==
  Phase("pe", "remaining", <<Call("P.E.", schoolData.days, TRUE)>>)

\* [...new Set(Object.values(schoolData.subjects).flatMap(div => Object.keys(div)))]
RECURSIVE Distinct(_)
Distinct(s) ==
  IF s = <<>> THEN <<>>
  ELSE LET front == Distinct(SubSeq(s, 1, Len(s) - 1))
       IN IF Includes(front, s[Len(s)]) THEN front ELSE Append(front, s[Len(s)])

allSubjects ==
  LET names(division) == [k \in DOMAIN schoolData.subjects[division] |->
                            schoolData.subjects[division][k].subject]
  IN Distinct(names("lowerPrimary") \o names("upperPrimary"))

\* _scheduleRemainingLessons: subjectsToSkip
subjectsToSkip ==
  {constraints.subjectRestrictions[i].subject : i \in DOMAIN constraints.subjectRestrictions}
  \cup Range(constraints.singleResourceSubjects)
  \cup {constraints.doublePeriodSubjects[i].subject :
          i \in {j \in DOMAIN constraints.doublePeriodSubjects :
                   constraints.doublePeriodSubjects[j].strict = "true"}}
  \cup {"P.E."}

\* _scheduleRemainingLessons: the stable sort that puts the mixed subjects first
hasMixedRule(subject) ==
  \E i \in DOMAIN constraints.doublePeriodSubjects :
    /\ constraints.doublePeriodSubjects[i].subject = subject
    /\ constraints.doublePeriodSubjects[i].strict = "mixed"

remainingSubjects ==
  LET rest == SelectSeq(allSubjects, LAMBDA x : x \notin subjectsToSkip)
  IN SelectSeq(rest, hasMixedRule) \o SelectSeq(rest, LAMBDA x : ~hasMixedRule(x))

\* _scheduleRemainingLessons
ScheduleRemainingLessons ==
  Phase("remaining", "breakLunch",
        [i \in DOMAIN remainingSubjects |-> Call(remainingSubjects[i], schoolData.days, FALSE)])

\* ------------------------------------------------ _scheduleAllForSubject
\* The call of _scheduleAllForSubject the phase makes next.
ScheduleAllForSubject ==
  /\ subjectQueue # <<>>
  /\ classesLeft = {}
  /\ loop = "idle"
  /\ call' = Head(subjectQueue)
  /\ subjectQueue' = Tail(subjectQueue)
  /\ classesLeft' = Range(allClasses)
  /\ UNCHANGED <<caller, sync, scenario, timetables, globalSchedule, teacherStats, unassignedLessons,
                 pc,
                 loop, lessonDetails, periodsToSchedule, doublesScheduled,
                 singlesScheduled, validationPassed>>

\* constraints.doublePeriodSubjects.find(r => r.subject === subject && r.divisions.includes(division))
findRule(subject, division) ==
  LET rules == SelectSeq(constraints.doublePeriodSubjects,
                         LAMBDA r : r.subject = subject /\ Includes(r.divisions, division))
  IN IF rules = <<>>
     THEN [subject |-> "", divisions |-> <<>>, strict |-> "none",
           structure |-> [doubles |-> 0, singles |-> 0]]
     ELSE rules[1]

\* The loop a class enters first.
firstLoop(scheduleAsDoubleOnly, rule) ==
  IF scheduleAsDoubleOnly THEN "doubleOnly"
  ELSE IF rule.strict = "mixed" THEN "mixedDoubles"
  ELSE "defaultDoubles"

\* The body of the forEach over the shuffled classes, up to the first loop: the
\* shuffle makes any class not yet visited the next one.
ForEachClass ==
  /\ loop = "idle"
  /\ \E c \in drawClass(classesLeft) :
       LET division == getClassDivision(c)
           teacher == getTeacherForClassSubject(c, call.subject)
           n == needed(division, call.subject)
       IN /\ classesLeft' = classesLeft \ {c}
          /\ IF teacher # NoTeacher /\ n > 0
             THEN /\ lessonDetails' = [className |-> c, subject |-> call.subject,
                                       teacher |-> teacher]
                  /\ periodsToSchedule' = n - getScheduledPeriods(Memory, c, call.subject)
                  /\ loop' = firstLoop(call.scheduleAsDoubleOnly,
                                       findRule(call.subject, division))
                  /\ doublesScheduled' = 0
                  /\ singlesScheduled' = 0
             ELSE UNCHANGED <<lessonDetails, periodsToSchedule, loop, doublesScheduled,
                              singlesScheduled>>
  /\ UNCHANGED <<caller, sync, scenario, timetables, globalSchedule, teacherStats, unassignedLessons,
                 pc,
                 subjectQueue, call, validationPassed>>

currentRule == findRule(lessonDetails.subject, getClassDivision(lessonDetails.className))

\* if (scheduleAsDoubleOnly): the while loop and the check after it
DoubleOnlyLoop ==
  /\ loop = "doubleOnly"
  /\ IF periodsToSchedule >= 2
     THEN \E r \in scheduleLessonBlock(Memory, lessonDetails, call.allowedDays, 2) :
            IF r.ok
            THEN /\ SetMemory(r.m)
                 /\ periodsToSchedule' = periodsToSchedule - 2
                 /\ UNCHANGED <<unassignedLessons, loop>>
            ELSE /\ SetMemory(r.m)
                 /\ unassignedLessons' = unassignedLessons \o
                      <<Unassigned(lessonDetails, periodsToSchedule, "mandatory double"),
                        Unassigned(lessonDetails, periodsToSchedule, "not as doubles")>>
                 /\ loop' = "idle"
                 /\ UNCHANGED periodsToSchedule
     ELSE /\ unassignedLessons' =
               IF periodsToSchedule > 0
               THEN Append(unassignedLessons,
                           Unassigned(lessonDetails, periodsToSchedule, "not as doubles"))
               ELSE unassignedLessons
          /\ loop' = "idle"
          /\ UNCHANGED <<timetables, globalSchedule, teacherStats, periodsToSchedule>>
  /\ UNCHANGED <<caller, sync, scenario, pc, subjectQueue, call, classesLeft, lessonDetails,
                 doublesScheduled, singlesScheduled, validationPassed>>

\* mixed structure: the doubles of the structure
MixedDoublesLoop ==
  /\ loop = "mixedDoubles"
  /\ IF doublesScheduled < currentRule.structure.doubles /\ periodsToSchedule >= 2
     THEN \E r \in scheduleLessonBlock(Memory, lessonDetails, call.allowedDays, 2) :
            /\ SetMemory(r.m)
            /\ IF r.ok
               THEN /\ periodsToSchedule' = periodsToSchedule - 2
                    /\ doublesScheduled' = doublesScheduled + 1
                    /\ UNCHANGED loop
               ELSE /\ loop' = "mixedSingles"
                    /\ UNCHANGED <<periodsToSchedule, doublesScheduled>>
     ELSE /\ loop' = "mixedSingles"
          /\ UNCHANGED <<timetables, globalSchedule, teacherStats, periodsToSchedule,
                         doublesScheduled>>
  /\ UNCHANGED <<caller, sync, scenario, unassignedLessons, pc, subjectQueue, call, classesLeft,
                 lessonDetails, singlesScheduled, validationPassed>>

\* mixed structure: the singles of the structure
MixedSinglesLoop ==
  /\ loop = "mixedSingles"
  /\ IF singlesScheduled < currentRule.structure.singles /\ periodsToSchedule >= 1
     THEN \E r \in scheduleLessonBlock(Memory, lessonDetails, call.allowedDays, 1) :
            /\ SetMemory(r.m)
            /\ IF r.ok
               THEN /\ periodsToSchedule' = periodsToSchedule - 1
                    /\ singlesScheduled' = singlesScheduled + 1
                    /\ UNCHANGED loop
               ELSE /\ loop' = "mixedRestDoubles"
                    /\ UNCHANGED <<periodsToSchedule, singlesScheduled>>
     ELSE /\ loop' = "mixedRestDoubles"
          /\ UNCHANGED <<timetables, globalSchedule, teacherStats, periodsToSchedule,
                         singlesScheduled>>
  /\ UNCHANGED <<caller, sync, scenario, unassignedLessons, pc, subjectQueue, call, classesLeft,
                 lessonDetails, doublesScheduled, validationPassed>>

\* mixed structure: the periods still remaining, as a double or else a single
MixedRestDoublesLoop ==
  /\ loop = "mixedRestDoubles"
  /\ IF periodsToSchedule >= 2
     THEN \E r2 \in scheduleLessonBlock(Memory, lessonDetails, call.allowedDays, 2) :
            IF r2.ok
            THEN /\ SetMemory(r2.m)
                 /\ periodsToSchedule' = periodsToSchedule - 2
                 /\ UNCHANGED loop
            ELSE \E r1 \in scheduleLessonBlock(r2.m, lessonDetails, call.allowedDays, 1) :
                   /\ SetMemory(r1.m)
                   /\ IF r1.ok
                      THEN /\ periodsToSchedule' = periodsToSchedule - 1
                           /\ UNCHANGED loop
                      ELSE /\ loop' = "mixedRestSingles"
                           /\ UNCHANGED periodsToSchedule
     ELSE /\ loop' = "mixedRestSingles"
          /\ UNCHANGED <<timetables, globalSchedule, teacherStats, periodsToSchedule>>
  /\ UNCHANGED <<caller, sync, scenario, unassignedLessons, pc, subjectQueue, call, classesLeft,
                 lessonDetails, doublesScheduled, singlesScheduled, validationPassed>>

\* mixed structure: the periods still remaining, as singles, and the check after
MixedRestSinglesLoop ==
  /\ loop = "mixedRestSingles"
  /\ \E r \in IF periodsToSchedule >= 1
              THEN scheduleLessonBlock(Memory, lessonDetails, call.allowedDays, 1)
              ELSE {[ok |-> FALSE, m |-> Memory]} :
       /\ SetMemory(r.m)
       /\ IF r.ok
          THEN /\ periodsToSchedule' = periodsToSchedule - 1
               /\ UNCHANGED <<loop, unassignedLessons>>
          ELSE /\ unassignedLessons' =
                    IF periodsToSchedule > 0
                    THEN Append(unassignedLessons,
                                Unassigned(lessonDetails, periodsToSchedule, "mixed structure"))
                    ELSE unassignedLessons
               /\ loop' = "idle"
               /\ UNCHANGED periodsToSchedule
  /\ UNCHANGED <<caller, sync, scenario, pc, subjectQueue, call, classesLeft, lessonDetails,
                 doublesScheduled, singlesScheduled, validationPassed>>

\* A default branch whose placed double is not counted
DefaultDoublesUncounted ==
  /\ loop = "defaultDoubles"
  /\ IF periodsToSchedule >= 2
     THEN \E r \in scheduleLessonBlock(Memory, lessonDetails, call.allowedDays, 2) :
            /\ SetMemory(r.m)
            /\ IF r.ok
               THEN UNCHANGED <<periodsToSchedule, loop>>
               ELSE /\ loop' = "defaultSingles"
                    /\ UNCHANGED periodsToSchedule
     ELSE /\ loop' = "defaultSingles"
          /\ UNCHANGED <<timetables, globalSchedule, teacherStats, periodsToSchedule>>
  /\ UNCHANGED <<caller, sync, scenario, unassignedLessons, pc, subjectQueue, call, classesLeft,
                 lessonDetails, doublesScheduled, singlesScheduled, validationPassed>>

\* default: as many doubles as possible
DefaultDoublesLoop ==
  /\ loop = "defaultDoubles"
  /\ IF periodsToSchedule >= 2
     THEN \E r \in scheduleLessonBlock(Memory, lessonDetails, call.allowedDays, 2) :
            /\ SetMemory(r.m)
            /\ IF r.ok
               THEN /\ periodsToSchedule' = periodsToSchedule - 2
                    /\ UNCHANGED loop
               ELSE /\ loop' = "defaultSingles"
                    /\ UNCHANGED periodsToSchedule
     ELSE /\ loop' = "defaultSingles"
          /\ UNCHANGED <<timetables, globalSchedule, teacherStats, periodsToSchedule>>
  /\ UNCHANGED <<caller, sync, scenario, unassignedLessons, pc, subjectQueue, call, classesLeft,
                 lessonDetails, doublesScheduled, singlesScheduled, validationPassed>>

\* A default branch whose failed single ends the run on the spot, as a throw
\* out of generate() would
DefaultSinglesAborts ==
  /\ loop = "defaultSingles"
  /\ IF periodsToSchedule > 0
     THEN \E r \in scheduleLessonBlock(Memory, lessonDetails, call.allowedDays, 1) :
            /\ SetMemory(r.m)
            /\ IF r.ok
               THEN /\ periodsToSchedule' = periodsToSchedule - 1
                    /\ UNCHANGED <<loop, unassignedLessons, pc, subjectQueue, classesLeft>>
               ELSE /\ unassignedLessons' =
                         Append(unassignedLessons,
                                Unassigned(lessonDetails, periodsToSchedule, "remaining singles"))
                    /\ loop' = "idle"
                    /\ classesLeft' = {}
                    /\ subjectQueue' = <<>>
                    /\ pc' = "done"
                    /\ UNCHANGED periodsToSchedule
     ELSE /\ loop' = "idle"
          /\ UNCHANGED <<timetables, globalSchedule, teacherStats, unassignedLessons,
                         periodsToSchedule, pc, subjectQueue, classesLeft>>
  /\ UNCHANGED <<caller, sync, scenario, call, lessonDetails,
                 doublesScheduled, singlesScheduled, validationPassed>>

\* default: then singles
DefaultSinglesLoop ==
  /\ loop = "defaultSingles"
  /\ IF periodsToSchedule > 0
     THEN \E r \in scheduleLessonBlock(Memory, lessonDetails, call.allowedDays, 1) :
            /\ SetMemory(r.m)
            /\ IF r.ok
               THEN /\ periodsToSchedule' = periodsToSchedule - 1
                    /\ UNCHANGED <<loop, unassignedLessons>>
               ELSE /\ unassignedLessons' =
                         Append(unassignedLessons,
                                Unassigned(lessonDetails, periodsToSchedule, "remaining singles"))
                    /\ loop' = "idle"
                    /\ UNCHANGED periodsToSchedule
     ELSE /\ loop' = "idle"
          /\ UNCHANGED <<timetables, globalSchedule, teacherStats, unassignedLessons,
                         periodsToSchedule>>
  /\ UNCHANGED <<caller, sync, scenario, pc, subjectQueue, call, classesLeft, lessonDetails,
                 doublesScheduled, singlesScheduled, validationPassed>>

\* --------------------------------------------- gap filler and validator
\* _injectBreakAndLunch
InjectBreakAndLunch ==
  /\ pc = "breakLunch"
  /\ Idle
  /\ timetables' =
       [c \in DOMAIN timetables |->
          LET division == getClassDivision(c)
              known == division \in DOMAIN schoolData.divisionSchedules
          IN [d \in DOMAIN timetables[c] |->
                [p \in DOMAIN timetables[c][d] |->
                   IF ~known \/ timetables[c][d][p].type # "none" THEN timetables[c][d][p]
                   ELSE IF p = schoolData.divisionSchedules[division].breakPeriod
                   THEN Typed("break", "Break")
                   ELSE IF p = schoolData.divisionSchedules[division].lunchPeriod
                   THEN Typed("lunch", "Lunch")
                   ELSE timetables[c][d][p]]]]
  /\ pc' = "fill"
  /\ UNCHANGED <<caller, sync, scenario, globalSchedule, teacherStats, unassignedLessons,
                 subjectQueue,
                 call, classesLeft, loop, lessonDetails, periodsToSchedule,
                 doublesScheduled, singlesScheduled, validationPassed>>

isArrival(periodId) ==
  \E i \in DOMAIN schoolData.periods :
    schoolData.periods[i].id = periodId /\ schoolData.periods[i].type = "arrival"

\* _fillEmptySlots that leaves the periods outside the lesson slots empty
fillEntryLessonSlotsOnly(c, periodId) ==
  IF Includes(getAvailableLessonSlots(c, ""), periodId) THEN Typed("free", "Free Period")
  ELSE EmptyCell

\* _fillEmptySlots: what an empty cell of the class at the period becomes
fillEntry(c, periodId) ==
  IF Includes(getAvailableLessonSlots(c, ""), periodId) THEN Typed("free", "Free Period")
  ELSE IF isArrival(periodId) THEN Typed("arrival", "Arrival")
  ELSE Typed("free", "Free")

\* _fillEmptySlots
FillEmptySlots ==
  /\ pc = "fill"
  /\ timetables' =
       [c \in DOMAIN timetables |->
          [d \in DOMAIN timetables[c] |->
             [p \in DOMAIN timetables[c][d] |->
                IF timetables[c][d][p].type = "none"
                   /\ d \in Range(schoolData.days)
                   /\ \E i \in DOMAIN schoolData.periods : schoolData.periods[i].id = p
                THEN fillEntry(c, p)
                ELSE timetables[c][d][p]]]]
  /\ pc' = "validate"
  /\ UNCHANGED <<caller, sync, scenario, globalSchedule, teacherStats, unassignedLessons,
                 subjectQueue,
                 call, classesLeft, loop, lessonDetails, periodsToSchedule,
                 doublesScheduled, singlesScheduled, validationPassed>>

\* _validateTimetable: a required count differs from the scheduled count
countMismatch ==
  \E i \in DOMAIN allClasses :
    LET division == getClassDivision(allClasses[i])
    IN /\ division \in DOMAIN schoolData.subjects
       /\ \E k \in DOMAIN schoolData.subjects[division] :
            getScheduledPeriods(Memory, allClasses[i], schoolData.subjects[division][k].subject)
              # schoolData.subjects[division][k].periods

\* _validateTimetable: globalSlot.teachers.size > 1
teacherConflict ==
  \E d \in Range(schoolData.days) :
    \E i \in DOMAIN schoolData.periods :
      Cardinality(globalSchedule[d][schoolData.periods[i].id].teachers) > 1

\* _validateTimetable: the ICT lab is booked and more than one class has ICT there
ictDoubleBooked ==
  \E d \in Range(schoolData.days) :
    \E i \in DOMAIN schoolData.periods :
      LET p == schoolData.periods[i].id
      IN /\ globalSchedule[d][p].resources["ICT"] # NoClass
         /\ Cardinality({c \in DOMAIN timetables : timetables[c][d][p].subject = "ICT"}) > 1

\* _validateTimetable, after which generate() returns this.timetables
ValidateTimetable ==
  /\ pc = "validate"
  /\ validationPassed' =
       ~(countMismatch \/ unassignedLessons # <<>> \/ teacherConflict \/ ictDoubleBooked)
  /\ pc' = "done"
  /\ UNCHANGED <<caller, sync, scenario, timetables, globalSchedule, teacherStats,
                 unassignedLessons,
                 subjectQueue, call, classesLeft, loop, lessonDetails, periodsToSchedule,
                 doublesScheduled, singlesScheduled>>

Next ==
  \/ Initialize
  \/ ScheduleSpecialEvents
  \/ ScheduleRestrictedSubjects
  \/ ScheduleSingleResourceSubjects
  \/ ScheduleStrictDoublePeriodSubjects
  \/ SchedulePE
  \/ ScheduleRemainingLessons
  \/ ScheduleAllForSubject
  \/ ForEachClass
  \/ DoubleOnlyLoop
  \/ MixedDoublesLoop
  \/ MixedSinglesLoop
  \/ MixedRestDoublesLoop
  \/ MixedRestSinglesLoop
  \/ DefaultDoublesLoop
  \/ DefaultSinglesLoop
  \/ InjectBreakAndLunch
  \/ FillEmptySlots
  \/ ValidateTimetable

\* generate() of src/sampa/timetable-generator.js
Spec == Init /\ [][Next]_vars

\* ------------------------------------- properties of timetable-generator.js
LessonsAt(day, periodId) ==
  {c \in DOMAIN timetables : timetables[c][day][periodId].type = "lesson"}

Cells == {<<d, p>> : d \in Range(DayList), p \in PeriodIds}

Started == pc # "initialize"

\* C1: in every state reachable during generate(), for every teacher and every
\* (day, period), at most one class's cell holds a Lesson taught by that teacher.
C1_TeacherInOneClassPerSlot ==
  Started =>
    \A x \in Cells : \A c1, c2 \in LessonsAt(x[1], x[2]) :
      timetables[c1][x[1]][x[2]].teacher = timetables[c2][x[1]][x[2]].teacher => c1 = c2

\* A teacher of two classes teaches both of them on one day (in different periods).
C1_Witness ==
  /\ Started
  /\ {c1A, c2A} \subseteq DOMAIN timetables
  /\ \E d \in Range(DayList) : \E p1, p2 \in PeriodIds :
       /\ timetables[c1A][d][p1].type = "lesson"
       /\ timetables[c2A][d][p2].type = "lesson"
       /\ timetables[c1A][d][p1].teacher = timetables[c2A][d][p2].teacher

\* C2: in every state reachable during generate(), a teacher's count of the
\* day, teacherStats[t].dailyPeriods[d], is at most the teacher's applicable cap.
C2_DailyCountWithinCap ==
  \A t \in DOMAIN teacherStats : \A d \in DOMAIN teacherStats[t].dailyPeriods :
    teacherStats[t].dailyPeriods[d] <= maxPeriods(t)

\* C3: for every subject of constraints.singleResourceSubjects and every
\* (day, period), at most one class holds a Lesson of that subject.
C3_ResourceInOneClassPerSlot ==
  Started =>
    \A x \in Cells : \A c1, c2 \in LessonsAt(x[1], x[2]) :
      /\ timetables[c1][x[1]][x[2]].subject = timetables[c2][x[1]][x[2]].subject
      /\ Includes(constraints.singleResourceSubjects, timetables[c1][x[1]][x[2]].subject)
      => c1 = c2

EntryTypes == {"lesson", "event", "break", "lunch", "free", "arrival"}

\* C4: when generate() returns, every cell of every class of the teacher table,
\* every day and every period of the period list holds an entry: none is empty.
C4_EveryCellFilled ==
  pc = "done" =>
    \A i \in DOMAIN allClasses : \A x \in Cells :
      timetables[allClasses[i]][x[1]][x[2]].type \in EntryTypes

\* generate() has returned a grid with a Lesson, an event, a break, a lunch, a
\* free period and an arrival period.
C4_Witness ==
  /\ pc = "done"
  /\ \E c \in DOMAIN timetables :
       EntryTypes \subseteq {timetables[c][x[1]][x[2]].type : x \in Cells}

hasDiagnostic(c, subject) ==
  \E i \in DOMAIN unassignedLessons :
    unassignedLessons[i].className = c /\ unassignedLessons[i].subject = subject

required(c) ==
  IF getClassDivision(c) \in DOMAIN schoolData.subjects
  THEN Range(schoolData.subjects[getClassDivision(c)])
  ELSE {}

\* C5: when generate() returns, for every class and every subject its division
\* requires with count R > 0, the grid holds exactly R Lessons of the subject for
\* the class or unassignedLessons has an entry for that (class, subject).
C5_RequirementMetOrDiagnosed ==
  pc = "done" =>
    \A i \in DOMAIN allClasses : \A e \in required(allClasses[i]) :
      e.periods > 0 =>
        \/ getScheduledPeriods(Memory, allClasses[i], e.subject) = e.periods
        \/ hasDiagnostic(allClasses[i], e.subject)

\* C6: globalSchedule[day][period].teachers never holds more than one teacher,
\* so that the validator's check teachers.size > 1 reports nothing.
C6_OneCommittedTeacherPerSlot ==
  Started => ~teacherConflict

strictFor(c) ==
  {constraints.doublePeriodSubjects[i].subject :
     i \in {j \in DOMAIN constraints.doublePeriodSubjects :
              /\ constraints.doublePeriodSubjects[j].strict = "true"
              /\ Includes(constraints.doublePeriodSubjects[j].divisions, getClassDivision(c))}}

hasLesson(c, d, p, s) ==
  p \in PeriodIds /\ timetables[c][d][p].type = "lesson" /\ timetables[c][d][p].subject = s

\* C7: in the final grid every Lesson of a subject with a strict double-period
\* rule, for a class of a division the rule lists, has a Lesson of the same
\* subject in the period before or after it on the same day.
C7_StrictDoublesAreConsecutive ==
  pc = "done" =>
    \A c \in DOMAIN timetables : \A x \in Cells : \A s \in strictFor(c) :
      hasLesson(c, x[1], x[2], s) =>
        hasLesson(c, x[1], x[2] - 1, s) \/ hasLesson(c, x[1], x[2] + 1, s)

\* The slots a step fills with Lessons for class c on day d.
filled(c, d) ==
  {p \in PeriodIds : timetables[c][d][p].type = "none" /\ timetables'[c][d][p].type = "lesson"}

\* Some pair of id-consecutive empty non-event slots of the day passes
\* canAssignLesson for both slots.
consecutivePairPasses(L, d) ==
  \E p \in PeriodIds :
    /\ (p + 1) \in PeriodIds
    /\ timetables[L.className][d][p].type = "none" /\ ~eventAt(d, p)
    /\ timetables[L.className][d][p + 1].type = "none" /\ ~eventAt(d, p + 1)
    /\ canAssignLesson(Memory, L.className, L.subject, L.teacher, d, p)
    /\ canAssignLesson(Memory, L.className, L.subject, L.teacher, d, p + 1)

\* C8: whenever _scheduleLessonBlock with numPeriods = 2 fills two slots on a day
\* on which a pair of id-consecutive empty non-event slots passes canAssignLesson
\* for both slots, the two slots it fills are id-consecutive.
C8_ConsecutivePairPreferred ==
  [][\A d \in Range(DayList) :
       (/\ loop # "idle"
        /\ Cardinality(filled(lessonDetails.className, d)) = 2
        /\ consecutivePairPasses(lessonDetails, d))
       => \E p \in filled(lessonDetails.className, d) :
            (p + 1) \in filled(lessonDetails.className, d)]_vars

\* The teachers and subjects canAssignLesson can be asked about
askedTeachers == teacherSet \cup {NoTeacher}

occupied(c, d, p) == timetables[c][d][p].type # "none"

\* C11: canAssignLesson returns valid: false whenever the target cell already
\* holds any entry (a Lesson, a SpecialEvent, a Break, a Lunch, a Free or an
\* Arrival entry), whatever the subject and the teacher asked for.
C11_OccupiedCellIsRejected ==
  Started =>
    \A c \in DOMAIN timetables : \A x \in Cells :
      occupied(c, x[1], x[2]) =>
        \A s \in Range(allSubjects) : \A t \in askedTeachers :
          ~canAssignLesson(Memory, c, s, t, x[1], x[2])

\* The days an availability rule of constraints.teacherAvailability forbids a
\* teacher: outside the rule's availableDays, or inside its unavailableDays
forbiddenDay(teacher, day) ==
  \E i \in DOMAIN constraints.teacherAvailability :
    /\ constraints.teacherAvailability[i].teacher = teacher
    /\ \/ /\ constraints.teacherAvailability[i].hasAvailableDays
          /\ ~Includes(constraints.teacherAvailability[i].availableDays, day)
       \/ /\ constraints.teacherAvailability[i].hasUnavailableDays
          /\ Includes(constraints.teacherAvailability[i].unavailableDays, day)

\* C12: in every reachable state, no Lesson taught by a teacher lies on a day
\* the teacher's availability rule forbids (a day outside availableDays, or a day
\* inside unavailableDays).
C12_LessonsOnAvailableDays ==
  Started =>
    \A c \in DOMAIN timetables : \A x \in Cells :
      timetables[c][x[1]][x[2]].type = "lesson" =>
        ~forbiddenDay(timetables[c][x[1]][x[2]].teacher, x[1])

\* generate() has returned and the grid holds a Lesson of a teacher whose rule
\* forbids one of the days of the week
C12_Witness ==
  /\ pc = "done"
  /\ \E c \in DOMAIN timetables : \E x \in Cells :
       /\ timetables[c][x[1]][x[2]].type = "lesson"
       /\ \E d \in Range(DayList) : forbiddenDay(timetables[c][x[1]][x[2]].teacher, d)

\* The days outside the permitted days of a subject's restriction
restrictedDay(subject, day) ==
  \E i \in DOMAIN constraints.subjectRestrictions :
    /\ constraints.subjectRestrictions[i].subject = subject
    /\ ~Includes(constraints.subjectRestrictions[i].days, day)

\* C13: in every reachable state, no Lesson of a subject with a day restriction
\* lies on a day outside the permitted days, whichever phase scheduled it.
C13_LessonsOnPermittedDays ==
  Started =>
    \A c \in DOMAIN timetables : \A x \in Cells :
      timetables[c][x[1]][x[2]].type = "lesson" =>
        ~restrictedDay(timetables[c][x[1]][x[2]].subject, x[1])

\* generate() has returned, the grid holds a Lesson of a restricted subject, and
\* the periods the permitted days had no room for are reported: the phases after
\* the restricted one, which offer every day, have tried them too
C13_Witness ==
  /\ pc = "done"
  /\ \E c \in DOMAIN timetables : \E x \in Cells :
       /\ timetables[c][x[1]][x[2]].type = "lesson"
       /\ \E d \in Range(DayList) : restrictedDay(timetables[c][x[1]][x[2]].subject, d)
       /\ Len(SelectSeq(unassignedLessons,
                        LAMBDA u : /\ u.className = c
                                   /\ u.subject = timetables[c][x[1]][x[2]].subject)) >= 2

\* C14: a class whose division requires a subject with R > 0 periods but which
\* has no teacher for the subject in the teacher table has, when generate()
\* returns, a diagnostic in unassignedLessons for that (class, subject).
C14_MissingTeacherIsDiagnosed ==
  pc = "done" =>
    \A i \in DOMAIN allClasses : \A e \in required(allClasses[i]) :
      (e.periods > 0 /\ getTeacherForClassSubject(allClasses[i], e.subject) = NoTeacher)
        => hasDiagnostic(allClasses[i], e.subject)

\* The steps of generate() in the order of lines 13-26; pc names the step that
\* has not begun yet
PhaseOrder ==
  <<"initialize", "specialEvents", "restricted", "singleResource", "strictDouble", "pe",
    "remaining", "breakLunch", "fill", "validate", "done">>

phaseIndex(name) == CHOOSE i \in DOMAIN PhaseOrder : PhaseOrder[i] = name

\* Every call of _scheduleAllForSubject the running step made has returned
stepReturned == subjectQueue = <<>> /\ classesLeft = {} /\ loop = "idle"

gridHolds(type) ==
  \E c \in DOMAIN timetables : \E x \in Cells : timetables[c][x[1]][x[2]].type = type

becomes(c, x, type) ==
  timetables[c][x[1]][x[2]].type # type /\ timetables'[c][x[1]][x[2]].type = type

\* C15: the phases of generate() run strictly in the order special events,
\* restricted, single-resource, strict-double, P.E., remaining, break/lunch,
\* fill, validation, each completing before the next starts: a step is entered
\* only from the step before it and only when that step's calls have returned,
\* no SpecialEvent is pinned after the first Lesson was placed, and no Lesson is
\* placed after the break/lunch injection has begun.
C15_PhasesInOrder ==
  [][/\ pc' # pc => (phaseIndex(pc') = phaseIndex(pc) + 1 /\ stepReturned)
     /\ \A c \in DOMAIN timetables : \A x \in Cells :
          /\ becomes(c, x, "event") => (pc = "specialEvents" /\ ~gridHolds("lesson"))
          /\ becomes(c, x, "lesson") =>
               /\ phaseIndex(pc) <= phaseIndex("breakLunch")
               /\ ~gridHolds("break") /\ ~gridHolds("lunch") /\ ~gridHolds("free")]_vars

\* Break and lunch have been injected into a grid that holds a pinned event and
\* Lessons, and the fill step has not run yet
C15_Witness ==
  /\ pc = "fill"
  /\ gridHolds("event") /\ gridHolds("lesson") /\ gridHolds("break") /\ gridHolds("lunch")
  /\ ~gridHolds("free")

\* C19: cells are write-once: once a cell holds an entry, no later step of
\* generate() changes or replaces it (so assignLesson never finds an entry in the
\* cell it writes, and its overwrite warning is not reached).
C19_CellsAreWriteOnce ==
  [][\A c \in DOMAIN timetables : \A x \in Cells :
       occupied(c, x[1], x[2]) => timetables'[c][x[1]][x[2]] = timetables[c][x[1]][x[2]]]_vars

\* The fill step has run over a grid that held a pinned event, Lessons, breaks
\* and lunches
C19_Witness ==
  /\ pc = "validate"
  /\ gridHolds("event") /\ gridHolds("lesson") /\ gridHolds("break") /\ gridHolds("free")

\* The periods of day d in which class c has a Lesson of the subject
lessonsOn(c, subject, d) ==
  {p \in PeriodIds : timetables[c][d][p].type = "lesson" /\ timetables[c][d][p].subject = subject}

\* The periods assigned to a teacher: the sum of dailyPeriods over the first n days
RECURSIVE assignedPeriods(_, _)
assignedPeriods(t, n) ==
  IF n = 0 THEN 0
  ELSE assignedPeriods(t, n - 1) + teacherStats[t].dailyPeriods[DayList[n]]

\* C37: when generate() returns, teacherStats[t].totalPeriods of every teacher is
\* the number of periods assigned to the teacher, the sum of dailyPeriods over
\* the days.
C37_TotalIsSumOfDaily ==
  pc = "done" =>
    \A t \in DOMAIN teacherStats :
      teacherStats[t].totalPeriods = assignedPeriods(t, Len(DayList))

\* The number of entries of a list of unassigned lessons for (class, subject)
entriesFor(list, c, subject) ==
  Cardinality({i \in DOMAIN list : list[i].className = c /\ list[i].subject = subject})

\* C38: one call of _scheduleAllForSubject appends at most one entry to
\* unassignedLessons per (class, subject).  A call visits each class once, so
\* this is: no step of the visit of a class appends more than one entry for
\* the class and the subject, and a step that appends one ends the visit.
C38_OneEntryPerClassAndCall ==
  [][\A c \in Range(allClasses) : \A s \in Range(allSubjects) :
       /\ entriesFor(unassignedLessons', c, s) <= entriesFor(unassignedLessons, c, s) + 1
       /\ entriesFor(unassignedLessons', c, s) > entriesFor(unassignedLessons, c, s)
            => loop' = "idle"]_vars

\* The periods of the day of an event that does not apply to the division of
\* class c: appliesTo is neither 'all' nor a list with the division
foreignEventPeriods(c, day) ==
  {p \in PeriodIds :
     \E i \in DOMAIN schoolData.specialEvents :
       /\ schoolData.specialEvents[i].day = day
       /\ p \in Range(schoolData.specialEvents[i].periodIds)
       /\ ~schoolData.specialEvents[i].appliesTo.all
       /\ getClassDivision(c) \notin Range(schoolData.specialEvents[i].appliesTo.divisions)}

\* The loop that _scheduleAllForSubject is in calls _scheduleLessonBlock next
blockDue ==
  \/ loop \in {"doubleOnly", "defaultDoubles", "mixedRestDoubles"} /\ periodsToSchedule >= 2
  \/ loop \in {"defaultSingles", "mixedRestSingles"} /\ periodsToSchedule >= 1
  \/ /\ loop = "mixedDoubles"
     /\ doublesScheduled < currentRule.structure.doubles
     /\ periodsToSchedule >= 2
  \/ /\ loop = "mixedSingles"
     /\ singlesScheduled < currentRule.structure.singles
     /\ periodsToSchedule >= 1

\* C39: an event restricts the placement of Lessons only for the classes it
\* applies to: when _scheduleLessonBlock is called for a class, its candidate
\* slots for the class on an allowed day contain every period
\* of an event that does not apply to the class, if the class's cell is empty
\* and the period is a lesson slot of the class.
C39_ForeignEventsLeaveSlotsOpen ==
  blockDue =>
    \A d \in Range(call.allowedDays) : \A p \in foreignEventPeriods(lessonDetails.className, d) :
      (/\ timetables[lessonDetails.className][d][p].type = "none"
       /\ p \in Range(getAvailableLessonSlots(lessonDetails.className, d)))
        => p \in Range(availableSlotsOnDay(Memory, lessonDetails.className, d,
                                           getAvailableLessonSlots(lessonDetails.className, d)))

\* The teachers of the Lessons that the classes hold at (day, period)
teachingAt(day, period) ==
  {timetables[c][day][period].teacher :
     c \in {k \in DOMAIN timetables : timetables[k][day][period].type = "lesson"}}

\* C35: the global occupancy mirrors the grid in every reachable state: a teacher
\* is in globalSchedule[day][period].teachers exactly when some class holds a
\* Lesson of that teacher at (day, period), and resources.ICT at (day, period)
\* names a class only if that class holds an ICT Lesson there.
C35_GlobalScheduleMirrorsGrid ==
  pc # "initialize" =>
    \A x \in Cells :
      /\ globalSchedule[x[1]][x[2]].teachers = teachingAt(x[1], x[2])
      /\ globalSchedule[x[1]][x[2]].resources["ICT"] # NoClass =>
           /\ globalSchedule[x[1]][x[2]].resources["ICT"] \in DOMAIN timetables
           /\ hasLesson(globalSchedule[x[1]][x[2]].resources["ICT"], x[1], x[2], "ICT")

\* Two teachers are booked in one period, one of them in the ICT lab
C35_Witness ==
  /\ pc # "initialize"
  /\ \E x \in Cells :
       /\ Cardinality(globalSchedule[x[1]][x[2]].teachers) = 2
       /\ globalSchedule[x[1]][x[2]].resources["ICT"] # NoClass

\* The cells in which class c has a Lesson of the subject
lessonsOf(c, subject) == {x \in Cells : hasLesson(c, x[1], x[2], subject)}

\* C33: at every point of generate(), for every class and every subject of which
\* the class's division requires R periods, the grid of the class holds at most
\* R Lessons of the subject.
C33_NeverMoreThanRequired ==
  \A c \in DOMAIN timetables : \A s \in Range(allSubjects) :
    needed(getClassDivision(c), s) > 0 =>
      Cardinality(lessonsOf(c, s)) <= needed(getClassDivision(c), s)

\* The single-resource phase comes to a class whose requirement of two or more
\* periods the phase of the restricted subjects has met in full
C33_Witness ==
  /\ pc = "strictDouble"
  /\ loop # "idle"
  /\ \E i \in DOMAIN constraints.subjectRestrictions :
       constraints.subjectRestrictions[i].subject = lessonDetails.subject
  /\ needed(getClassDivision(lessonDetails.className), lessonDetails.subject) >= 2
  /\ Cardinality(lessonsOf(lessonDetails.className, lessonDetails.subject))
       = needed(getClassDivision(lessonDetails.className), lessonDetails.subject)
  /\ periodsToSchedule = 0

\* C21: for every class, subject and day, the grid generate() returns holds at
\* most 2 Lessons of that subject on that day.
C21_AtMostTwoOfASubjectPerDay ==
  pc = "done" =>
    \A c \in DOMAIN timetables : \A s \in Range(allSubjects) : \A d \in Range(DayList) :
      Cardinality(lessonsOn(c, s, d)) <= 2

\* ------------------------------------------------ generate() runs to its end
InitLive ==
  /\ NoCaller
  /\ scenario \in {"StrictDoubles", "MixedStructure", "RestrictedLab", "ShortDay", "OnLeave",
                   "TwoEvents", "TwiceListed", "PEOnLeave", "ForeignEvent"}
  /\ Constructed

\* generate() is one synchronous call: as long as it has not returned it takes
\* its next step.  The weak fairness of Next is written with its enabling
\* condition, pc # "done", in the place of ENABLED <<Next>>_vars.
SpecLive ==
  /\ InitLive
  /\ [][Next]_vars
  /\ WF_vars(Initialize)
  /\ (<>[](pc # "done") => []<><<Next>>_vars)

\* C24: a failed placement never stops the run: the step that records a
\* shortfall diagnostic leaves the classes of the forEach not yet visited, the
\* calls the phase still has to make and the phase itself as they are and hands
\* control back to the forEach, and a run that has recorded a diagnostic goes on
\* until generate() returns the grid.
C24_ShortfallNeverStopsTheRun ==
  /\ [][unassignedLessons' # unassignedLessons /\ pc # "initialize" =>
         /\ classesLeft' = classesLeft
         /\ subjectQueue' = subjectQueue
         /\ pc' = pc
         /\ loop' = "idle"]_vars
  /\ (unassignedLessons # <<>> ~> (pc = "done" /\ DOMAIN timetables # {}))

\* After a diagnostic was recorded for one class, another class of the same
\* subject has got its Lesson and the run has reached a later phase
C24_Witness ==
  /\ unassignedLessons # <<>>
  /\ pc = "fill"
  /\ \E c \in DOMAIN timetables : \E x \in Cells :
       /\ c # unassignedLessons[1].className
       /\ hasLesson(c, x[1], x[2], unassignedLessons[1].subject)
       /\ getScheduledPeriods(Memory, unassignedLessons[1].className,
                              unassignedLessons[1].subject) = 0

whileLoops ==
  {"doubleOnly", "mixedDoubles", "mixedSingles", "mixedRestDoubles", "mixedRestSingles",
   "defaultDoubles", "defaultSingles"}

\* C25: generate() terminates: every step taken inside a while-loop of
\* _scheduleAllForSubject strictly decreases periodsToSchedule or leaves the
\* loop, and the run reaches the return of generate().
C25_LoopsDecreaseAndRunEnds ==
  /\ [][(loop \in whileLoops) =>
         \/ periodsToSchedule' < periodsToSchedule
         \/ loop' # loop]_vars
  /\ <>(pc = "done")

\* A while-loop has placed a block and is about to iterate again
C25_Witness ==
  /\ loop \in whileLoops
  /\ periodsToSchedule > 0
  /\ periodsToSchedule < needed(getClassDivision(lessonDetails.className), lessonDetails.subject)
  /\ \E x \in Cells : hasLesson(lessonDetails.className, x[1], x[2], lessonDetails.subject)

\* The i-th special event targets the cell (d, p) of class c
targets(i, c, d, p) ==
  /\ schoolData.specialEvents[i].day = d
  /\ p \in Range(schoolData.specialEvents[i].periodIds)
  /\ \/ schoolData.specialEvents[i].appliesTo.all
     \/ getClassDivision(c) \in Range(schoolData.specialEvents[i].appliesTo.divisions)

eventsPinned == pc \notin {"initialize", "specialEvents"}

\* C28: pinning special events is idempotent and first-wins: once
\* _scheduleSpecialEvents has run, running it again leaves the grid unchanged,
\* and a cell that several events target holds the entry of the event listed
\* first among them.
C28_PinningIdempotentFirstWins ==
  eventsPinned =>
    /\ pinEvents(timetables, 1) = timetables
    /\ \A c \in DOMAIN timetables : \A x \in Cells : \A i \in DOMAIN schoolData.specialEvents :
         (targets(i, c, x[1], x[2]) /\ \A j \in 1..(i - 1) : ~targets(j, c, x[1], x[2]))
           => /\ timetables[c][x[1]][x[2]].type = "event"
              /\ timetables[c][x[1]][x[2]].name = schoolData.specialEvents[i].name

\* The events are pinned and two events of different names target one cell
C28_Witness ==
  /\ eventsPinned
  /\ \E c \in DOMAIN timetables : \E x \in Cells : \E i, j \in DOMAIN schoolData.specialEvents :
       /\ i < j
       /\ targets(i, c, x[1], x[2])
       /\ targets(j, c, x[1], x[2])
       /\ schoolData.specialEvents[i].name # schoolData.specialEvents[j].name
       /\ timetables[c][x[1]][x[2]].type = "event"

\* ---------------------------------------------- generate() called repeatedly
\* generate() is called again on the instance that has returned: the instance
\* keeps its fields
GenerateAgain ==
  /\ pc = "done"
  /\ regenerations < MaxRegenerations
  /\ pc' = "initialize"
  /\ regenerations' = regenerations + 1
  /\ UNCHANGED <<scenario, fixture, sync, timetables, globalSchedule, teacherStats, unassignedLessons,
                 subjectQueue, call, classesLeft, loop, lessonDetails, periodsToSchedule,
                 doublesScheduled, singlesScheduled, validationPassed, appPc,
                 regenerateBtnDisabled, statusMessage, viewMode, appTimetables, unassigned,
                 workerInbox, appInbox>>

\* new TimetableGenerator(schoolData, constraints), as a step: the fields of the
\* new instance are those of Constructed
Construct ==
  /\ timetables' = <<>>
  /\ globalSchedule' = <<>>
  /\ teacherStats' = <<>>
  /\ unassignedLessons' = <<>>
  /\ pc' = "initialize"
  /\ subjectQueue' = <<>>
  /\ call' = NoCall
  /\ classesLeft' = {}
  /\ loop' = "idle"
  /\ lessonDetails' = NoLesson
  /\ periodsToSchedule' = 0
  /\ groupsLeft' = <<>>
  /\ scheduled' = 0
  /\ doublesScheduled' = 0
  /\ singlesScheduled' = 0
  /\ validationPassed' = TRUE

\* The worker's handler runs for the next message: new TimetableGenerator(...)
NewInstance ==
  /\ pc = "done"
  /\ Construct
  /\ regenerations' = 0
  /\ UNCHANGED <<scenario, fixture, appPc, regenerateBtnDisabled, statusMessage, viewMode,
                 appTimetables, unassigned, workerInbox, appInbox>>

InitAgain ==
  /\ NoCaller
  /\ scenario \in {"StrictDoubles", "MixedStructure", "RestrictedLab"}
  /\ Constructed

NextAgain ==
  \/ Initialize
  \/ ScheduleSpecialEvents
  \/ ScheduleRestrictedSubjects
  \/ ScheduleSingleResourceSubjects
  \/ ScheduleStrictDoublePeriodSubjects
  \/ SchedulePE
  \/ ScheduleRemainingLessons
  \/ ScheduleAllForSubject
  \/ ForEachClass
  \/ DoubleOnlyLoop
  \/ MixedDoublesLoop
  \/ MixedSinglesLoop
  \/ MixedRestDoublesLoop
  \/ MixedRestSinglesLoop
  \/ DefaultDoublesLoop
  \/ DefaultSinglesLoop
  \/ InjectBreakAndLunch
  \/ FillEmptySlots
  \/ ValidateTimetable
  \/ GenerateAgain
  \/ NewInstance

\* generate() of src/sampa/timetable-generator.js, called again and again: on
\* the same instance, and on the new instance the worker makes for each message
SpecAgain == InitAgain /\ [][NextAgain]_vars

\* C18: each generation starts from fresh state: at the end of _initialize, also
\* on a second generate() call on the same instance and on the instance made for
\* a worker message, every class cell is empty, every globalSchedule teacher set
\* is empty and every resource claim is null, every teacher's per-day count is 0
\* and unassignedLessons is empty.
C18_EachRunStartsFresh ==
  pc = "specialEvents" =>
    /\ \A c \in DOMAIN timetables : \A x \in Cells : ~occupied(c, x[1], x[2])
    /\ \A x \in Cells :
         /\ globalSchedule[x[1]][x[2]].teachers = {}
         /\ globalSchedule[x[1]][x[2]].resources.ICT = NoClass
    /\ \A t \in DOMAIN teacherStats : \A d \in Range(DayList) :
         teacherStats[t].dailyPeriods[d] = 0
    /\ unassignedLessons = <<>>

\* _initialize has run in a second generate() call on an instance whose first
\* call had returned
C18_Witness ==
  /\ pc = "specialEvents"
  /\ regenerations = 1
  /\ DOMAIN timetables = Range(allClasses)

\* ------------------------------------------- two runs under one seed
\* The seeds: an order of the classes, of the days and of the lesson slots
Seeds ==
  {[classes |-> cs, days |-> ds, slots |-> ps] :
     cs \in Shuffles(allClasses), ds \in Shuffles(DayList), ps \in Shuffles(DaySchedule.lessonSlots)}

\* What generate() returned and the diagnostics it left
Returned == [timetables |-> timetables, unassignedLessons |-> unassignedLessons]

\* The first run has returned; generate() is called again on the same instance
\* with the same input and the same seed
RunAgain ==
  /\ pc = "done"
  /\ firstRun = <<>>
  /\ firstRun' = Returned
  /\ pc' = "initialize"
  /\ UNCHANGED <<scenario, sync, seed, lookup, timetables, globalSchedule, teacherStats,
                 unassignedLessons, subjectQueue, call, classesLeft, loop, lessonDetails,
                 periodsToSchedule, doublesScheduled, singlesScheduled, validationPassed,
                 regenerations, appPc, regenerateBtnDisabled, statusMessage, viewMode,
                 appTimetables, unassigned, workerInbox, appInbox>>

\* The first run has returned; a new TimetableGenerator is given the same input
\* and the same seed
RunAnew ==
  /\ pc = "done"
  /\ firstRun = <<>>
  /\ firstRun' = Returned
  /\ Construct
  /\ UNCHANGED <<scenario, seed, lookup, regenerations, appPc, regenerateBtnDisabled,
                 statusMessage, viewMode, appTimetables, unassigned, workerInbox, appInbox>>

InitSeeded ==
  /\ Standalone
  /\ scenario \in {"SharedTeacher", "StrictDoubles", "MixedStructure", "RestrictedLab"}
  /\ Constructed
  /\ seed \in Seeds
  /\ firstRun = <<>>
  /\ lookup = NoLookup

NextSeeded ==
  \/ Next
  \/ RunAgain
  \/ RunAnew

\* generate() run twice on one input with Math.random fixed by one seed
SpecSeeded == InitSeeded /\ [][NextSeeded]_vars

divisionOfYear0(year, className) ==
  IF year < 0 THEN "unknown"
  ELSE IF year >= 1 /\ year <= 3 THEN "lowerPrimary"
  ELSE IF year = 4 \/ className = <<"Y", "e", "a", "r", " ", "4">> THEN "upperPrimary"
  ELSE IF year >= 5 /\ year <= 6 THEN "upperPrimary"
  ELSE IF year >= 7 /\ year <= 9 THEN "lowerSecondary"
  ELSE IF year >= 10 /\ year <= 11 THEN "upperSecondary"
  ELSE "unknown"

getClassDivision0(className) ==
  divisionOfYear0(MatchEither(MatchYear(className), className), className)

\* _getLessonSlotsBreakLunchForClass; -1 stands for an undefined period
NoSchedule == [lessonSlots |-> <<>>, breakPeriod |-> -1, lunchPeriod |-> -1]

scheduleOf(perClass, division) ==
  IF perClass # <<>>
  THEN [lessonSlots |-> perClass[1].lessonSlots, breakPeriod |-> perClass[1].breakPeriod,
        lunchPeriod |-> perClass[1].lunchPeriod]
  ELSE IF division \in DOMAIN schoolData.divisionSchedules
  THEN schoolData.divisionSchedules[division]
  ELSE NoSchedule

getLessonSlotsBreakLunchForClass(className) ==
  scheduleOf(SelectSeq(schoolData.perClassSchedules, LAMBDA e : e.className = className),
             getClassDivision0(className))

\* _getLessonSlotsForClass and _getAvailableLessonSlots of part_000
getLessonSlotsForClass(className) == getLessonSlotsBreakLunchForClass(className).lessonSlots

\* canAssignLesson of part_000 (allowMoreThan2PerDay is never passed): .valid
canAssignLesson0(m, className, subject, teacher, day, slot) ==
  /\ Includes(getLessonSlotsForClass(className), slot)
  /\ notBooked(m, className, day, slot)
  /\ ~(countSubjectOnDay(m, className, subject, day) >= 2)
  /\ belowDailyCap(m, teacher, day)
  /\ teacherFree(m, teacher, day, slot)
  /\ availabilityPermits(teacher, day)
  /\ restrictionPermits(subject, day)
  /\ labFree(m, subject, day, slot)

\* availableSlotsOnDay.sort((a, b) => a - b)
Sorted(s) ==
  CHOOSE t \in Shuffles(s) : \A i, j \in DOMAIN t : i < j => t[i] <= t[j]

passing0(m, L, day, order) ==
  {i \in DOMAIN order : canAssignLesson0(m, L.className, L.subject, L.teacher, day, order[i])}

\* _scheduleLessonBlock of part_000: the loop "try two singles" over the slots
\* of the day; the state after it and the value of singlesScheduled
RECURSIVE twoSingles(_, _, _, _, _, _)
twoSingles(m, L, day, slots, singles, alreadyToday) ==
  IF slots = <<>> THEN [m |-> m, singlesScheduled |-> singles]
  ELSE IF canAssignLesson0(m, L.className, L.subject, L.teacher, day, Head(slots))
  THEN IF singles + 1 = 2 \/ alreadyToday + 1 >= 2
       THEN [m |-> assignLesson(m, L.className, L.subject, L.teacher, day, Head(slots)),
             singlesScheduled |-> singles + 1]
       ELSE twoSingles(assignLesson(m, L.className, L.subject, L.teacher, day, Head(slots)),
                       L, day, Tail(slots), singles + 1, alreadyToday + 1)
  ELSE twoSingles(m, L, day, Tail(slots), singles, alreadyToday)

afterSingles(fallback) == [ok |-> fallback.singlesScheduled = 2, m |-> fallback.m]

\* _scheduleLessonBlock of part_000: the body of the loop over the days once the
\* sorted available slots of the day are known
tryOrder0(m, L, day, order, numPeriods, strictDoubles, singlesAllowed) ==
  IF numPeriods = 2
  THEN IF scanConsecutive(order, passing0(m, L, day, order)) # <<>>
       THEN Placed(m, L, day, scanConsecutive(order, passing0(m, L, day, order)))
       ELSE IF ~strictDoubles /\ singlesAllowed
       THEN afterSingles(twoSingles(m, L, day, order, 0,
                                    countSubjectOnDay(m, L.className, L.subject, day)))
       ELSE [ok |-> FALSE, m |-> m]
  ELSE IF numPeriods = 1 /\ singlesAllowed
  THEN Placed(m, L, day, scanSingle(order, passing0(m, L, day, order)))
  ELSE [ok |-> FALSE, m |-> m]

\* _scheduleLessonBlock of part_000: the body of the loop over the days
tryDay0(m, L, day, numPeriods, strictDoubles, singlesAllowed) ==
  IF countSubjectOnDay(m, L.className, L.subject, day) >= 2
  THEN [ok |-> FALSE, m |-> m]
  ELSE tryOrder0(m, L, day,
                 Sorted(availableSlotsOnDay(m, L.className, day,
                                            getLessonSlotsForClass(L.className))),
                 numPeriods, strictDoubles, singlesAllowed)

\* the loop over the days: return true at the first day that places the block
afterDay(r, rest) == IF r.ok THEN {r} ELSE rest

\* _scheduleLessonBlock of part_000: the results the loop over the shuffled days
\* can give when the days at the indexes `left` of allowedDays are still to be tried
RECURSIVE blockFrom0(_, _, _, _, _, _, _)
blockFrom0(m, L, allowedDays, left, numPeriods, strictDoubles, singlesAllowed) ==
  IF left = {} THEN {[ok |-> FALSE, m |-> m]}
  ELSE UNION {afterDay(tryDay0(m, L, allowedDays[i], numPeriods, strictDoubles, singlesAllowed),
                       blockFrom0(tryDay0(m, L, allowedDays[i], numPeriods, strictDoubles,
                                          singlesAllowed).m,
                                  L, allowedDays, left \ {i}, numPeriods, strictDoubles,
                                  singlesAllowed))
              : i \in left}

\* _scheduleLessonBlock of part_000: every result (return value and state) of a call
scheduleLessonBlock0(m, L, allowedDays, numPeriods, strictDoubles, singlesAllowed) ==
  blockFrom0(m, L, allowedDays, DOMAIN allowedDays, numPeriods, strictDoubles, singlesAllowed)

\* The loop a class enters first in _scheduleAllForSubject of part_000.
firstLoop0(scheduleAsDoubleOnly, rule) ==
  IF scheduleAsDoubleOnly \/ rule.strict = "true" THEN "doubleOnly0"
  ELSE IF rule.strict = "mixed" THEN "mixedDoubles0"
  ELSE "defaultDoubles0"

findRule0(subject, division) ==
  LET rules == SelectSeq(constraints.doublePeriodSubjects,
                         LAMBDA r : r.subject = subject /\ Includes(r.divisions, division))
  IN IF rules = <<>>
     THEN [subject |-> "", divisions |-> <<>>, strict |-> "none",
           structure |-> [doubles |-> 0, singles |-> 0]]
     ELSE rules[1]

\* _scheduleAllForSubject of part_000: the body of the forEach over the shuffled
\* classes, up to the first loop
ForEachClass0 ==
  /\ loop = "idle"
  /\ \E c \in classesLeft :
       /\ classesLeft' = classesLeft \ {c}
       /\ IF /\ getTeacherForClassSubject(c, call.subject) # NoTeacher
             /\ needed(getClassDivision0(c), call.subject) > 0
          THEN /\ lessonDetails' = [className |-> c, subject |-> call.subject,
                                    teacher |-> getTeacherForClassSubject(c, call.subject)]
               /\ periodsToSchedule' = needed(getClassDivision0(c), call.subject)
                                       - getScheduledPeriods(Memory, c, call.subject)
               /\ loop' = firstLoop0(call.scheduleAsDoubleOnly,
                                     findRule0(call.subject, getClassDivision0(c)))
               /\ doublesScheduled' = 0
               /\ singlesScheduled' = 0
          ELSE UNCHANGED <<lessonDetails, periodsToSchedule, loop, doublesScheduled,
                           singlesScheduled>>
  /\ UNCHANGED <<caller, sync, scenario, timetables, globalSchedule, teacherStats, unassignedLessons,
                 pc,
                 subjectQueue, call, validationPassed>>

currentRule0 == findRule0(lessonDetails.subject, getClassDivision0(lessonDetails.className))

\* part_000, only doubles, no fallback: the while loop and the check after it
DoubleOnlyLoop0 ==
  /\ loop = "doubleOnly0"
  /\ IF periodsToSchedule >= 2
     THEN \E r \in scheduleLessonBlock0(Memory, lessonDetails, call.allowedDays, 2, TRUE, FALSE) :
            /\ SetMemory(r.m)
            /\ IF r.ok
               THEN /\ periodsToSchedule' = periodsToSchedule - 2
                    /\ UNCHANGED <<unassignedLessons, loop>>
               ELSE /\ unassignedLessons' = unassignedLessons \o
                         <<Unassigned(lessonDetails, periodsToSchedule, "mandatory double"),
                           Unassigned(lessonDetails, periodsToSchedule, "strict doubles")>>
                    /\ loop' = "idle"
                    /\ UNCHANGED periodsToSchedule
     ELSE /\ unassignedLessons' =
               IF periodsToSchedule > 0
               THEN Append(unassignedLessons,
                           Unassigned(lessonDetails, periodsToSchedule, "strict doubles"))
               ELSE unassignedLessons
          /\ loop' = "idle"
          /\ UNCHANGED <<timetables, globalSchedule, teacherStats, periodsToSchedule>>
  /\ UNCHANGED <<caller, sync, scenario, pc, subjectQueue, call, classesLeft, lessonDetails,
                 doublesScheduled, singlesScheduled, validationPassed>>

\* part_000, mixed structure: the doubles of the structure
MixedDoublesLoop0 ==
  /\ loop = "mixedDoubles0"
  /\ IF doublesScheduled < currentRule0.structure.doubles /\ periodsToSchedule >= 2
     THEN \E r \in scheduleLessonBlock0(Memory, lessonDetails, call.allowedDays, 2, TRUE, FALSE) :
            /\ SetMemory(r.m)
            /\ IF r.ok
               THEN /\ periodsToSchedule' = periodsToSchedule - 2
                    /\ doublesScheduled' = doublesScheduled + 1
                    /\ UNCHANGED loop
               ELSE /\ loop' = "mixedSingles0"
                    /\ UNCHANGED <<periodsToSchedule, doublesScheduled>>
     ELSE /\ loop' = "mixedSingles0"
          /\ UNCHANGED <<timetables, globalSchedule, teacherStats, periodsToSchedule, doublesScheduled>>
  /\ UNCHANGED <<caller, sync, scenario, unassignedLessons, pc, subjectQueue, call, classesLeft,
                 lessonDetails, singlesScheduled, validationPassed>>

\* part_000, mixed structure: the singles of the structure
MixedSinglesLoop0 ==
  /\ loop = "mixedSingles0"
  /\ IF singlesScheduled < currentRule0.structure.singles /\ periodsToSchedule >= 1
     THEN \E r \in scheduleLessonBlock0(Memory, lessonDetails, call.allowedDays, 1, FALSE, TRUE) :
            /\ SetMemory(r.m)
            /\ IF r.ok
               THEN /\ periodsToSchedule' = periodsToSchedule - 1
                    /\ singlesScheduled' = singlesScheduled + 1
                    /\ UNCHANGED loop
               ELSE /\ loop' = "mixedRest0"
                    /\ UNCHANGED <<periodsToSchedule, singlesScheduled>>
     ELSE /\ loop' = "mixedRest0"
          /\ UNCHANGED <<timetables, globalSchedule, teacherStats, periodsToSchedule, singlesScheduled>>
  /\ UNCHANGED <<caller, sync, scenario, unassignedLessons, pc, subjectQueue, call, classesLeft,
                 lessonDetails, doublesScheduled, validationPassed>>

\* part_000, mixed structure: more singles for the periods left, and the check after
MixedRestLoop0 ==
  /\ loop = "mixedRest0"
  /\ IF periodsToSchedule >= 1
     THEN \E r \in scheduleLessonBlock0(Memory, lessonDetails, call.allowedDays, 1, FALSE, TRUE) :
            /\ SetMemory(r.m)
            /\ IF r.ok
               THEN /\ periodsToSchedule' = periodsToSchedule - 1
                    /\ UNCHANGED <<unassignedLessons, loop>>
               ELSE /\ unassignedLessons' = Append(unassignedLessons,
                                            Unassigned(lessonDetails, periodsToSchedule, "mixed structure"))
                    /\ loop' = "idle"
                    /\ UNCHANGED periodsToSchedule
     ELSE /\ unassignedLessons' =
               IF periodsToSchedule > 0
               THEN Append(unassignedLessons,
                           Unassigned(lessonDetails, periodsToSchedule, "mixed structure"))
               ELSE unassignedLessons
          /\ loop' = "idle"
          /\ UNCHANGED <<timetables, globalSchedule, teacherStats, periodsToSchedule>>
  /\ UNCHANGED <<caller, sync, scenario, pc, subjectQueue, call, classesLeft, lessonDetails,
                 doublesScheduled, singlesScheduled, validationPassed>>

\* part_000, default: as many doubles as possible, with the fallback to two singles
DefaultDoublesLoop0 ==
  /\ loop = "defaultDoubles0"
  /\ IF periodsToSchedule >= 2
     THEN \E r \in scheduleLessonBlock0(Memory, lessonDetails, call.allowedDays, 2, FALSE, TRUE) :
            /\ SetMemory(r.m)
            /\ IF r.ok
               THEN /\ periodsToSchedule' = periodsToSchedule - 2
                    /\ UNCHANGED loop
               ELSE /\ loop' = "defaultSingles0"
                    /\ UNCHANGED periodsToSchedule
     ELSE /\ loop' = "defaultSingles0"
          /\ UNCHANGED <<timetables, globalSchedule, teacherStats, periodsToSchedule>>
  /\ UNCHANGED <<caller, sync, scenario, unassignedLessons, pc, subjectQueue, call, classesLeft,
                 lessonDetails, doublesScheduled, singlesScheduled, validationPassed>>

\* part_000, default: then singles
DefaultSinglesLoop0 ==
  /\ loop = "defaultSingles0"
  /\ IF periodsToSchedule > 0
     THEN \E r \in scheduleLessonBlock0(Memory, lessonDetails, call.allowedDays, 1, FALSE, TRUE) :
            /\ SetMemory(r.m)
            /\ IF r.ok
               THEN /\ periodsToSchedule' = periodsToSchedule - 1
                    /\ UNCHANGED <<unassignedLessons, loop>>
               ELSE /\ unassignedLessons' = Append(unassignedLessons,
                                            Unassigned(lessonDetails, periodsToSchedule, "single periods"))
                    /\ loop' = "idle"
                    /\ UNCHANGED periodsToSchedule
     ELSE /\ loop' = "idle"
          /\ UNCHANGED <<timetables, globalSchedule, teacherStats, unassignedLessons, periodsToSchedule>>
  /\ UNCHANGED <<caller, sync, scenario, pc, subjectQueue, call, classesLeft, lessonDetails,
                 doublesScheduled, singlesScheduled, validationPassed>>

\* ------------------------------------------- generate() of part_000
\* _initialize of part_000: the required periods of the teacher's pairs
totalPeriods0(teacher) ==
  SumPeriods(teacher,
    UNION {IF getClassDivision0(allClasses[i]) \in DOMAIN schoolData.subjects
           THEN {<<i, schoolData.subjects[getClassDivision0(allClasses[i])][k]>> :
                   k \in DOMAIN schoolData.subjects[getClassDivision0(allClasses[i])]}
           ELSE {}
           : i \in DOMAIN allClasses})

\* _initialize of part_000
Initialize0 ==
  /\ pc = "initialize"
  /\ unassignedLessons' = <<>>
  /\ timetables' = [c \in Range(allClasses) |->
                      [d \in Range(schoolData.days) |-> [p \in PeriodIds |-> EmptyCell]]]
  /\ globalSchedule' = [d \in Range(schoolData.days) |->
                          [p \in PeriodIds |-> [teachers |-> {}, resources |-> [ICT |-> NoClass]]]]
  /\ teacherStats' = [t \in teacherSet |->
                        [totalPeriods |-> totalPeriods0(t),
                         dailyPeriods |-> [d \in Range(schoolData.days) |-> 0]]]
  /\ pc' = "specialEvents"
  /\ UNCHANGED <<caller, sync, scenario, subjectQueue, call, classesLeft, loop, lessonDetails,
                 periodsToSchedule, doublesScheduled, singlesScheduled, validationPassed>>

\* _scheduleSpecialEvents of part_000: the event applies to the class
appliesTo0(event, c) ==
  event.appliesTo.all \/ Includes(event.appliesTo.divisions, getClassDivision0(c))

\* _scheduleSpecialEvents of part_000: the grid after the events from index i on are pinned
RECURSIVE pinEvents0(_, _)
pinEvents0(tt, i) ==
  IF i > Len(schoolData.specialEvents) THEN tt
  ELSE pinEvents0([c \in DOMAIN tt |->
                     [d \in DOMAIN tt[c] |->
                        [p \in DOMAIN tt[c][d] |->
                           IF /\ schoolData.specialEvents[i].day = d
                              /\ appliesTo0(schoolData.specialEvents[i], c)
                              /\ Includes(schoolData.specialEvents[i].periodIds, p)
                              /\ tt[c][d][p].type = "none"
                           THEN Typed("event", schoolData.specialEvents[i].name)
                           ELSE tt[c][d][p]]]],
                  i + 1)

\* _scheduleSpecialEvents of part_000
ScheduleSpecialEvents0 ==
  /\ pc = "specialEvents"
  /\ timetables' = pinEvents0(timetables, 1)
  /\ pc' = "restricted"
  /\ UNCHANGED <<caller, sync, scenario, globalSchedule, teacherStats, unassignedLessons,
                 subjectQueue,
                 call, classesLeft, loop, lessonDetails, periodsToSchedule,
                 doublesScheduled, singlesScheduled, validationPassed>>

\* _injectBreakAndLunch of part_000: what the cell of the class at the period becomes
breakOrLunch(cell, schedule, p) ==
  IF cell.type # "none" THEN cell
  ELSE IF schedule.breakPeriod # -1 /\ p = schedule.breakPeriod THEN Typed("break", "Break")
  ELSE IF schedule.lunchPeriod # -1 /\ p = schedule.lunchPeriod THEN Typed("lunch", "Lunch")
  ELSE cell

\* _injectBreakAndLunch of part_000
InjectBreakAndLunch0 ==
  /\ pc = "breakLunch"
  /\ Idle
  /\ timetables' =
       [c \in DOMAIN timetables |->
          [d \in DOMAIN timetables[c] |->
             [p \in DOMAIN timetables[c][d] |->
                breakOrLunch(timetables[c][d][p], getLessonSlotsBreakLunchForClass(c), p)]]]
  /\ pc' = "fill"
  /\ UNCHANGED <<caller, sync, scenario, globalSchedule, teacherStats, unassignedLessons,
                 subjectQueue,
                 call, classesLeft, loop, lessonDetails, periodsToSchedule,
                 doublesScheduled, singlesScheduled, validationPassed>>
\* _fillEmptySlots of part_000: what an empty cell of the class at the period becomes
fillEntry0(c, periodId) ==
  IF Includes(getLessonSlotsForClass(c), periodId) THEN Typed("free", "Free Period")
  ELSE IF isArrival(periodId) THEN Typed("arrival", "Arrival")
  ELSE Typed("free", "Free")

\* _fillEmptySlots of part_000
FillEmptySlots0 ==
  /\ pc = "fill"
  /\ timetables' =
       [c \in DOMAIN timetables |->
          [d \in DOMAIN timetables[c] |->
             [p \in DOMAIN timetables[c][d] |->
                IF timetables[c][d][p].type = "none"
                   /\ \E i \in DOMAIN schoolData.periods : schoolData.periods[i].id = p
                THEN fillEntry0(c, p)
                ELSE timetables[c][d][p]]]]
  /\ pc' = "enforce12"
  /\ UNCHANGED <<caller, sync, scenario, globalSchedule, teacherStats, unassignedLessons,
                 subjectQueue,
                 call, classesLeft, loop, lessonDetails, periodsToSchedule,
                 doublesScheduled, singlesScheduled, validationPassed>>
\* _enforce12PeriodsPerDay: allPrimaryYears
allPrimaryYears ==
  {<<"Y", "e", "a", "r", " ", "1">>, <<"Y", "e", "a", "r", " ", "2">>,
   <<"Y", "e", "a", "r", " ", "3">>, <<"Y", "e", "a", "r", " ", "4">>,
   <<"5", "A">>, <<"5", "B">>, <<"6", "A">>, <<"6", "B">>}

\* _enforce12PeriodsPerDay: the lesson periods a primary class is to have on a day
LessonPeriodsPerDay == 12

\* _enforce12PeriodsPerDay: the names that are not lessons
notLessonNames == {"Free Period", "Free", "Arrival", "Break", "Lunch", "Event"}

\* _enforce12PeriodsPerDay: the lesson slots without break and lunch
slotsWithoutBreaks(schedule) ==
  SelectSeq(schedule.lessonSlots,
            LAMBDA p : p # schedule.breakPeriod /\ p # schedule.lunchPeriod)

\* _enforce12PeriodsPerDay: lessonCount of a day's row
lessonCount(row, lessonSlots) ==
  Len(SelectSeq(lessonSlots,
                LAMBDA p : row[p].type # "none" /\ row[p].subject # ""
                           /\ row[p].name \notin notLessonNames))

\* _enforce12PeriodsPerDay: the slots the loop overwrites, the first toFill of the
\* slots whose entry is absent or has no subject
firstOf(s, n) == SubSeq(s, 1, IF n < Len(s) THEN n ELSE Len(s))

overwritten(row, lessonSlots, toFill) ==
  IF toFill > 0
  THEN Range(firstOf(SelectSeq(lessonSlots,
                               LAMBDA p : row[p].type = "none" \/ row[p].subject = ""),
                     toFill))
  ELSE {}

\* _enforce12PeriodsPerDay: the row of one day of one primary class afterwards
enforcedRow(row, lessonSlots) ==
  [p \in DOMAIN row |->
     IF p \in overwritten(row, lessonSlots, LessonPeriodsPerDay - lessonCount(row, lessonSlots))
     THEN Typed("free", "Free Period")
     ELSE row[p]]

\* _enforce12PeriodsPerDay
Enforce12PeriodsPerDay ==
  /\ pc = "enforce12"
  /\ timetables' =
       [c \in DOMAIN timetables |->
          IF c \in allPrimaryYears
          THEN [d \in DOMAIN timetables[c] |->
                  enforcedRow(timetables[c][d],
                              slotsWithoutBreaks(getLessonSlotsBreakLunchForClass(c)))]
          ELSE timetables[c]]
  /\ pc' = "validate"
  /\ UNCHANGED <<caller, sync, scenario, globalSchedule, teacherStats, unassignedLessons,
                 subjectQueue,
                 call, classesLeft, loop, lessonDetails, periodsToSchedule,
                 doublesScheduled, singlesScheduled, validationPassed>>
\* _validateTimetable of part_000: a required count differs from the scheduled count
countMismatch0 ==
  \E i \in DOMAIN allClasses :
    /\ getClassDivision0(allClasses[i]) \in DOMAIN schoolData.subjects
    /\ \E k \in DOMAIN schoolData.subjects[getClassDivision0(allClasses[i])] :
         getScheduledPeriods(Memory, allClasses[i],
                             schoolData.subjects[getClassDivision0(allClasses[i])][k].subject)
           # schoolData.subjects[getClassDivision0(allClasses[i])][k].periods

\* _validateTimetable of part_000, after which generate() returns this.timetables
ValidateTimetable0 ==
  /\ pc = "validate"
  /\ validationPassed' =
       ~(countMismatch0 \/ unassignedLessons # <<>> \/ teacherConflict \/ ictDoubleBooked)
  /\ pc' = "done"
  /\ UNCHANGED <<caller, sync, scenario, timetables, globalSchedule, teacherStats,
                 unassignedLessons,
                 subjectQueue, call, classesLeft, loop, lessonDetails, periodsToSchedule,
                 doublesScheduled, singlesScheduled>>

Init0 ==
  /\ NoCaller
  /\ scenario \in {"SharedTeacher", "SharedRooms", "StrictDoubles", "MixedStructure",
                  "ShortDay"}
  /\ Constructed

Next0 ==
  \/ Initialize0
  \/ ScheduleSpecialEvents0
  \/ ScheduleRestrictedSubjects
  \/ ScheduleSingleResourceSubjects
  \/ ScheduleStrictDoublePeriodSubjects
  \/ SchedulePE
  \/ ScheduleRemainingLessons
  \/ ScheduleAllForSubject
  \/ ForEachClass0
  \/ DoubleOnlyLoop0
  \/ MixedDoublesLoop0
  \/ MixedSinglesLoop0
  \/ MixedRestLoop0
  \/ DefaultDoublesLoop0
  \/ DefaultSinglesLoop0
  \/ InjectBreakAndLunch0
  \/ FillEmptySlots0
  \/ Enforce12PeriodsPerDay
  \/ ValidateTimetable0

\* generate() of src/unnamed/part_000
Spec0 == Init0 /\ [][Next0]_vars

\* C9 (part_000): inside _scheduleAllForSubject, after every return of
\* _scheduleLessonBlock, periodsToSchedule is the requirement minus the Lessons
\* of the class and subject that are in the grid.
C9_PeriodsToScheduleIsExact ==
  loop \in {"doubleOnly0", "mixedDoubles0", "mixedSingles0", "mixedRest0",
            "defaultDoubles0", "defaultSingles0"}
    => periodsToSchedule =
         needed(getClassDivision0(lessonDetails.className), lessonDetails.subject)
         - getScheduledPeriods(Memory, lessonDetails.className, lessonDetails.subject)

\* The grid as phase 1 of part_000 leaves it: the special events pinned into the
\* empty grid _initialize made
pinnedByPhase1 ==
  pinEvents0([c \in DOMAIN timetables |->
                [d \in DOMAIN timetables[c] |->
                   [p \in DOMAIN timetables[c][d] |-> EmptyCell]]], 1)

\* C20: in part_000, every cell in which phase 1 pinned a SpecialEvent still
\* holds that event when generate() returns: no later step, and in particular
\* not _enforce12PeriodsPerDay, replaces it.
C20_PinnedEventsSurvive ==
  pc = "done" =>
    \A c \in DOMAIN timetables : \A x \in Cells :
      pinnedByPhase1[c][x[1]][x[2]].type = "event" =>
        timetables[c][x[1]][x[2]] = pinnedByPhase1[c][x[1]][x[2]]

\* The cells of a day that count as lesson periods of a class: its lesson slots
\* without break and lunch that hold a Lesson or a Free Period
lessonPeriodsOn(c, d) ==
  {p \in Range(slotsWithoutBreaks(getLessonSlotsBreakLunchForClass(c))) :
     timetables[c][d][p].type \in {"lesson", "free"}}

\* C32 (part_000): after _enforce12PeriodsPerDay every class of allPrimaryYears
\* that is in the grid has exactly 12 lesson periods, break and lunch excluded,
\* on every day.
C32_TwelveLessonPeriodsEveryDay ==
  pc \in {"validate", "done"} =>
    \A c \in allPrimaryYears \cap DOMAIN timetables : \A d \in Range(DayList) :
      Cardinality(lessonPeriodsOn(c, d)) = LessonPeriodsPerDay

\* The subjects whose double-period rule has strict === true and lists the
\* division part_000 gives the class
strictFor0(c) ==
  {constraints.doublePeriodSubjects[i].subject :
     i \in {j \in DOMAIN constraints.doublePeriodSubjects :
              /\ constraints.doublePeriodSubjects[j].strict = "true"
              /\ getClassDivision0(c) \in Range(constraints.doublePeriodSubjects[j].divisions)}}

\* C31 (part_000): for a subject whose rule has strict === true and a class of a
\* division the rule lists, every day holds no Lesson of the subject for the
\* class or exactly two, in period ids that differ by 1: the subject is placed
\* as consecutive pairs only, with no single-period fallback.
C31_StrictSubjectsInConsecutivePairs ==
  \A c \in DOMAIN timetables : \A s \in strictFor0(c) : \A d \in Range(DayList) :
    \/ lessonsOn(c, s, d) = {}
    \/ \E p \in PeriodIds : lessonsOn(c, s, d) = {p, p + 1}

\* A strict subject has its pair in the grid that generate() returns
C31_Witness ==
  /\ pc = "done"
  /\ \E c \in DOMAIN timetables : \E s \in strictFor0(c) : \E d \in Range(DayList) :
       Cardinality(lessonsOn(c, s, d)) = 2

\* The lesson phases of part_000: from the first call of _scheduleAllForSubject
\* until _injectBreakAndLunch begins
lessonPhases0 == pc \in {"singleResource", "strictDouble", "pe", "remaining", "breakLunch"}

\* C22 (part_000): in every state reachable during the lesson phases, for every
\* class, subject and day, the grid holds at most 2 Lessons of that subject on
\* that day, although _scheduleLessonBlock checks both slots of a two-period
\* block before it assigns either.
C22_AtMostTwoPerDayInLessonPhases ==
  lessonPhases0 =>
    \A c \in DOMAIN timetables : \A s \in Range(allSubjects) : \A d \in Range(DayList) :
      Cardinality(lessonsOn(c, s, d)) <= 2

\* A two-period block is asked for a class that has 2 Lessons of the subject on
\* one day already and a single Lesson of it on another day
C22_Witness ==
  /\ lessonPhases0
  /\ loop = "defaultDoubles0"
  /\ periodsToSchedule >= 2
  /\ \E d1, d2 \in Range(DayList) :
       /\ Cardinality(lessonsOn(lessonDetails.className, lessonDetails.subject, d1)) = 2
       /\ Cardinality(lessonsOn(lessonDetails.className, lessonDetails.subject, d2)) = 1

\* =========================================================================
\* src/unnamed/part_002.  Its grid holds Lessons only: this revision pins no
\* event and injects no break, lunch or free period.  The inputs name one
\* teacher for a (class, subject), so that schoolData.teachers[className][subject]
\* is the name getTeacherForClassSubject gives.
\* =========================================================================

\* _getClassDivision of part_002: parseInt(className[0]); -1 stands for NaN
year2(className) ==
  IF className # <<>> /\ IsDigit(className[1]) THEN DigitVal(className[1]) ELSE -1

getClassDivision2(className) ==
  IF year2(className) = -1 THEN "lowerSecondary"
  ELSE IF year2(className) <= 3 THEN "lowerPrimary"
  ELSE IF year2(className) <= 6 THEN "upperPrimary"
  ELSE "lowerSecondary"

\* _getAvailableLessonSlots of part_002: eventPeriods of the day for the division
eventPeriods2(division, day) ==
  UNION {Range(schoolData.specialEvents[i].periodIds) :
           i \in {j \in DOMAIN schoolData.specialEvents :
                    /\ schoolData.specialEvents[j].day = day
                    /\ \/ schoolData.specialEvents[j].appliesTo.all
                       \/ Includes(schoolData.specialEvents[j].appliesTo.divisions, division)}}

\* _getAvailableLessonSlots of part_002
getAvailableLessonSlots2(className, day) ==
  SelectSeq(schoolData.divisionSchedules[getClassDivision2(className)].lessonSlots,
            LAMBDA slot : slot \notin eventPeriods2(getClassDivision2(className), day))

\* canAssignLesson of part_002: the teacher's availability rule permits the day
availabilityPermits2(teacher, day) ==
  \A i \in DOMAIN constraints.teacherAvailability :
    constraints.teacherAvailability[i].teacher = teacher =>
      /\ ~(/\ constraints.teacherAvailability[i].hasAvailableDays
           /\ ~Includes(constraints.teacherAvailability[i].availableDays, day))
      /\ ~(/\ constraints.teacherAvailability[i].hasUnavailableDays
           /\ Includes(constraints.teacherAvailability[i].unavailableDays, day))

\* the resources a globalSchedule entry can name
resourceNames == {"ICT"} \cup Range(constraints.singleResourceSubjects)

\* canAssignLesson of part_002: .valid
canAssignLesson2(m, className, subject, teacher, day, slot) ==
  /\ teacher \in DOMAIN m.teacherStats
  /\ ~(m.teacherStats[teacher].dailyPeriods[day] >= maxPeriods(teacher))
  /\ ~(countSubjectOnDay(m, className, subject, day)
         >= constraints.workloadLimits.maxClassPeriodsPerDay)
  /\ availabilityPermits2(teacher, day)
  /\ restrictionPermits(subject, day)
  /\ teacher \notin m.globalSchedule[day][slot].teachers
  /\ m.timetables[className][day][slot].type = "none"
  /\ ~(/\ Includes(constraints.singleResourceSubjects, subject)
       /\ m.globalSchedule[day][slot].resources[subject] # NoClass)

\* An assignLesson of part_002 that counts a period for the teacher only when
\* the teacher is not yet booked in the period
assignCountingOnce(m, className, subject, teacher, day, slot) ==
  [timetables |->
     [m.timetables EXCEPT ![className][day][slot] = Lesson(subject, teacher)],
   globalSchedule |->
     [m.globalSchedule EXCEPT
        ![day][slot].teachers = @ \cup {teacher},
        ![day][slot].resources =
           IF Includes(constraints.singleResourceSubjects, subject)
           THEN [@ EXCEPT ![subject] = className] ELSE @],
   teacherStats |->
     IF teacher \in m.globalSchedule[day][slot].teachers
     THEN m.teacherStats
     ELSE [m.teacherStats EXCEPT ![teacher].dailyPeriods[day] = @ + 1]]

\* assignLesson of part_002
assignLesson2(m, className, subject, teacher, day, slot) ==
  [timetables |->
     [m.timetables EXCEPT ![className][day][slot] = Lesson(subject, teacher)],
   globalSchedule |->
     [m.globalSchedule EXCEPT
        ![day][slot].teachers = @ \cup {teacher},
        ![day][slot].resources =
           IF Includes(constraints.singleResourceSubjects, subject)
           THEN [@ EXCEPT ![subject] = className] ELSE @],
   teacherStats |->
     [m.teacherStats EXCEPT ![teacher].dailyPeriods[day] = @ + 1]]

\* assignLesson of part_002 for each slot of the sequence `slots`
RECURSIVE assignAll2(_, _, _, _)
assignAll2(m, L, day, slots) ==
  IF slots = <<>> THEN m
  ELSE assignAll2(assignLesson2(m, L.className, L.subject, L.teacher, day, Head(slots)),
                  L, day, Tail(slots))

passing2(m, L, day, slots) ==
  {i \in DOMAIN slots : canAssignLesson2(m, L.className, L.subject, L.teacher, day, slots[i])}

\* _scheduleSpecificPeriods, Priority 2: the pairs i < j of slots two apart
\* whose middle period is the break or the lunch of the division, both passing
splitPairs(slots, pass, schedule) ==
  {x \in pass \X pass :
     /\ x[1] < x[2]
     /\ slots[x[2]] - slots[x[1]] = 2
     /\ slots[x[1]] + 1 \in {schedule.breakPeriod, schedule.lunchPeriod}}

\* the pair the nested loops over i and j meet first
firstPair(pairs) ==
  CHOOSE x \in pairs : \A y \in pairs : x[1] < y[1] \/ (x[1] = y[1] /\ x[2] <= y[2])

scanSplit(slots, pass, schedule) ==
  IF splitPairs(slots, pass, schedule) = {} THEN <<>>
  ELSE <<slots[firstPair(splitPairs(slots, pass, schedule))[1]],
         slots[firstPair(splitPairs(slots, pass, schedule))[2]]>>

\* _scheduleSpecificPeriods, numPeriods 2: the two slots a day gives, if any
doubleOnDay(slots, pass, schedule) ==
  IF scanConsecutive(slots, pass) # <<>> THEN scanConsecutive(slots, pass)
  ELSE scanSplit(slots, pass, schedule)

\* _scheduleSpecificPeriods: the fills a day can give (none: the day fails); for
\* one period the shuffled slots can put any passing slot first
fillsOnDay(slots, pass, schedule, numPeriods) ==
  IF Len(slots) < numPeriods THEN {}
  ELSE IF numPeriods = 2
  THEN {doubleOnDay(slots, pass, schedule)} \ {<<>>}
  ELSE IF numPeriods = 1 THEN {<<slots[i]>> : i \in pass}
  ELSE {}

specificOnDay(m, L, day, numPeriods) ==
  {[ok |-> TRUE, m |-> assignAll2(m, L, day, slots)] :
     slots \in fillsOnDay(getAvailableLessonSlots2(L.className, day),
                          passing2(m, L, day, getAvailableLessonSlots2(L.className, day)),
                          schoolData.divisionSchedules[getClassDivision2(L.className)],
                          numPeriods)}

\* a loop over shuffled days that returns at the first day that succeeds and
\* changes nothing on a day that fails: any day that succeeds can be that day
firstSuccess(m, successes) ==
  IF successes = {} THEN {[ok |-> FALSE, m |-> m]} ELSE successes

\* _scheduleSpecificPeriods: every result (return value and state) of a call
scheduleSpecificPeriods(m, L, allowedDays, numPeriods) ==
  firstSuccess(m, UNION {specificOnDay(m, L, allowedDays[i], numPeriods) :
                           i \in DOMAIN allowedDays})

\* --------------------------------------------- _scheduleLesson of part_002
\* The state of a call of _scheduleLesson: the run's memory, unassignedLessons
\* and the local periodsToSchedule.
Progress(m, un, p) == [m |-> m, un |-> un, p |-> p]

Unassigned2(className, subject, reason) ==
  [className |-> className, subject |-> subject, reason |-> reason]

pushed(st, L, reason) ==
  Progress(st.m, Append(st.un, Unassigned2(L.className, L.subject, reason)), st.p)

scored(r) == IF r.ok THEN 1 ELSE 0

\* after the two attempts at a single that stand in for a double
afterTwoSingles(st, L, r1, r2, reason) ==
  IF scored(r1) + scored(r2) < 2
  THEN pushed(Progress(r2.m, st.un, st.p - scored(r1) - scored(r2)), L, reason)
  ELSE Progress(r2.m, st.un, st.p - 2)

\* for (let s = 0; s < 2; s++) _scheduleSpecificPeriods(lesson, allowedDays, 1)
twoSingleAttempts(st, L, allowedDays, reason) ==
  UNION {{afterTwoSingles(st, L, r1, r2, reason) :
            r2 \in scheduleSpecificPeriods(r1.m, L, allowedDays, 1)} :
         r1 \in scheduleSpecificPeriods(st.m, L, allowedDays, 1)}

\* one iteration of a loop over the doubles
doubleOrSingles(st, L, allowedDays, reason) ==
  UNION {IF r.ok THEN {Progress(r.m, st.un, st.p - 2)}
         ELSE twoSingleAttempts(st, L, allowedDays, reason) :
         r \in scheduleSpecificPeriods(st.m, L, allowedDays, 2)}

\* for (let i = 0; i < doubles; i++): the states after n iterations
RECURSIVE doublesLoop(_, _, _, _, _)
doublesLoop(states, L, allowedDays, n, reason) ==
  IF n <= 0 THEN states
  ELSE doublesLoop(UNION {doubleOrSingles(st, L, allowedDays, reason) : st \in states},
                   L, allowedDays, n - 1, reason)

\* one iteration of the loop over the singles of a mixed structure
singleOrPush(st, L, allowedDays, reason) ==
  {IF r.ok THEN Progress(r.m, st.un, st.p - 1) ELSE pushed(st, L, reason) :
     r \in scheduleSpecificPeriods(st.m, L, allowedDays, 1)}

\* for (let i = 0; i < singles; i++): the states after n iterations
RECURSIVE singlesLoop(_, _, _, _, _)
singlesLoop(states, L, allowedDays, n, reason) ==
  IF n <= 0 THEN states
  ELSE singlesLoop(UNION {singleOrPush(st, L, allowedDays, reason) : st \in states},
                   L, allowedDays, n - 1, reason)

\* while (periodsToSchedule > 0): singles until one fails
RECURSIVE singlesWhile(_, _, _, _)
singlesWhile(st, L, allowedDays, reason) ==
  IF st.p <= 0 THEN {st}
  ELSE UNION {IF r.ok THEN singlesWhile(Progress(r.m, st.un, st.p - 1), L, allowedDays, reason)
              ELSE {pushed(st, L, reason)} :
              r \in scheduleSpecificPeriods(st.m, L, allowedDays, 1)}

\* _scheduleLesson, rule.strict === "mixed"
mixedLesson(st, L, allowedDays, structure) ==
  UNION {singlesWhile(x, L, allowedDays, "Could not find slot (mixed rule overflow)") :
           x \in singlesLoop(doublesLoop({st}, L, allowedDays, structure.doubles,
                                         "Could not find slot for double period (mixed rule)"),
                             L, allowedDays, structure.singles,
                             "Could not find slot for single period (mixed rule)")}

\* _scheduleLesson: every state a call can end in
scheduleLesson(st, L, allowedDays, rule) ==
  IF rule.strict = "mixed" THEN mixedLesson(st, L, allowedDays, rule.structure)
  ELSE IF rule.strict = "true"
  THEN doublesLoop({st}, L, allowedDays, st.p \div 2,
                   "Could not find slot for double period or singles")
  ELSE singlesWhile(st, L, allowedDays, "Could not find slot (flexible/single)")

\* ----------------------------------------- _scheduleSyncedPeriods of part_002
\* schoolData.days.filter(...) of _scheduleSyncedPeriods
syncDayAllowed(teacher, d) ==
  \A i \in DOMAIN constraints.teacherAvailability :
    constraints.teacherAvailability[i].teacher = teacher =>
      IF constraints.teacherAvailability[i].hasAvailableDays
      THEN Includes(constraints.teacherAvailability[i].availableDays, d)
      ELSE IF constraints.teacherAvailability[i].hasUnavailableDays
      THEN ~Includes(constraints.teacherAvailability[i].unavailableDays, d)
      ELSE TRUE

\* canAssignAll
canAssignAll(m, group, subject, teacher, day, slotsToTry) ==
  \A k \in DOMAIN group : \A j \in DOMAIN slotsToTry :
    canAssignLesson2(m, group[k], subject, teacher, day, slotsToTry[j])

\* the windows slots.slice(i, i + numPeriods) that are contiguous and can be
\* assigned for every class of the group
windows(m, group, subject, teacher, day, slots, numPeriods) ==
  {i \in 1..(Len(slots) - numPeriods + 1) :
     /\ ~(numPeriods > 1 /\ slots[i + numPeriods - 1] - slots[i] # numPeriods - 1)
     /\ canAssignAll(m, group, subject, teacher, day, SubSeq(slots, i, i + numPeriods - 1))}

\* A _scheduleSyncedPeriods that writes the window for the first class only
assignFirstOnly(m, group, subject, teacher, day, slotsToTry) ==
  assignAll2(m, [className |-> group[1], subject |-> subject, teacher |-> teacher],
             day, slotsToTry)

\* group.forEach(c => slotsToTry.forEach(s => this.assignLesson(c, ...)))
RECURSIVE assignGroup(_, _, _, _, _, _)
assignGroup(m, group, subject, teacher, day, slotsToTry) ==
  IF group = <<>> THEN m
  ELSE assignGroup(assignAll2(m, [className |-> Head(group), subject |-> subject,
                                  teacher |-> teacher], day, slotsToTry),
                   Tail(group), subject, teacher, day, slotsToTry)

syncedWindow(m, group, subject, teacher, day, slots, numPeriods, found) ==
  IF Len(slots) < numPeriods \/ found = {} THEN {}
  ELSE {[ok |-> TRUE,
         m |-> assignGroup(m, group, subject, teacher, day,
                           SubSeq(slots, Min(found), Min(found) + numPeriods - 1))]}

syncedOnDay(m, group, subject, teacher, day, numPeriods) ==
  syncedWindow(m, group, subject, teacher, day, getAvailableLessonSlots2(group[1], day),
               numPeriods,
               windows(m, group, subject, teacher, day,
                       getAvailableLessonSlots2(group[1], day), numPeriods))

\* _scheduleSyncedPeriods: every result (return value and state) of a call
scheduleSyncedPeriods(m, group, subject, numPeriods) ==
  firstSuccess(m,
    UNION {syncedOnDay(m, group, subject, getTeacherForClassSubject(group[1], subject),
                       schoolData.days[i], numPeriods) :
             i \in {j \in DOMAIN schoolData.days :
                      syncDayAllowed(getTeacherForClassSubject(group[1], subject),
                                     schoolData.days[j])}})

\* group.join(',')
RECURSIVE join(_)
join(group) ==
  IF group = <<>> THEN <<>>
  ELSE IF Len(group) = 1 THEN group[1]
  ELSE group[1] \o <<",">> \o join(Tail(group))

\* ------------------------------------------------ generate() of part_002
\* _initialize of part_002: the required periods of the teacher's pairs
totalPeriods2(teacher) ==
  SumPeriods(teacher,
    UNION {IF getClassDivision2(allClasses[i]) \in DOMAIN schoolData.subjects
           THEN {<<i, schoolData.subjects[getClassDivision2(allClasses[i])][k]>> :
                   k \in DOMAIN schoolData.subjects[getClassDivision2(allClasses[i])]}
           ELSE {}
           : i \in DOMAIN allClasses})

\* _initialize of part_002
Initialize2 ==
  /\ pc = "initialize"
  /\ unassignedLessons' = <<>>
  /\ timetables' = [c \in Range(allClasses) |->
                      [d \in Range(schoolData.days) |-> [p \in PeriodIds |-> EmptyCell]]]
  /\ globalSchedule' = [d \in Range(schoolData.days) |->
                          [p \in PeriodIds |->
                             [teachers |-> {}, resources |-> [r \in resourceNames |-> NoClass]]]]
  /\ teacherStats' = [t \in teacherSet |->
                        [totalPeriods |-> totalPeriods2(t),
                         dailyPeriods |-> [d \in Range(schoolData.days) |-> 0]]]
  /\ pc' = "restricted2"
  /\ UNCHANGED <<caller, sync, scenario, subjectQueue, call, classesLeft, loop, lessonDetails,
                 periodsToSchedule, doublesScheduled, singlesScheduled, validationPassed>>

\* _scheduleRestrictedSubjects of part_002
ScheduleRestrictedSubjects2 ==
  Phase("restricted2", "peSync",
        [i \in DOMAIN constraints.subjectRestrictions |->
           Call(constraints.subjectRestrictions[i].subject,
                constraints.subjectRestrictions[i].days, FALSE)])

\* _schedulePESynchronization: the forEach over constraints.peSynchronization
SchedulePESynchronization ==
  /\ pc = "peSync"
  /\ Idle
  /\ groupsLeft' = constraints.peSynchronization
  /\ pc' = "ict"
  /\ UNCHANGED <<caller, scenario, timetables, globalSchedule, teacherStats, unassignedLessons,
                 subjectQueue, call, classesLeft, loop, lessonDetails, periodsToSchedule,
                 scheduled, doublesScheduled, singlesScheduled, validationPassed>>

\* const needed of _schedulePESynchronization, for the group the forEach is at
neededByGroup == needed(getClassDivision2(Head(groupsLeft)[1]), "P.E.")

\* const periodsToSchedule of _schedulePESynchronization
syncPeriods == IF neededByGroup - scheduled >= 2 THEN 2 ELSE 1

\* _schedulePESynchronization: the body of the forEach, up to the while loop
ForEachGroup ==
  /\ groupsLeft # <<>>
  /\ loop = "idle"
  /\ IF neededByGroup = 0
     THEN /\ groupsLeft' = Tail(groupsLeft)
          /\ UNCHANGED <<scheduled, loop>>
     ELSE /\ scheduled' = getScheduledPeriods(Memory, Head(groupsLeft)[1], "P.E.")
          /\ loop' = "syncWhile"
          /\ UNCHANGED groupsLeft
  /\ UNCHANGED <<caller, scenario, timetables, globalSchedule, teacherStats, unassignedLessons,
                 pc, subjectQueue, call, classesLeft, lessonDetails, periodsToSchedule,
                 doublesScheduled, singlesScheduled, validationPassed>>

\* _schedulePESynchronization: one iteration of while (scheduled < needed), which
\* is one call of _scheduleSyncedPeriods
SyncWhile ==
  /\ loop = "syncWhile"
  /\ IF scheduled < neededByGroup
     THEN \E r \in scheduleSyncedPeriods(Memory, Head(groupsLeft), "P.E.", syncPeriods) :
            /\ SetMemory(r.m)
            /\ IF r.ok
               THEN /\ scheduled' = scheduled + syncPeriods
                    /\ UNCHANGED <<unassignedLessons, loop, groupsLeft>>
               ELSE /\ unassignedLessons' =
                         Append(unassignedLessons,
                                Unassigned2(join(Head(groupsLeft)), "P.E.",
                                            "Could not find sync P.E. slot"))
                    /\ loop' = "idle"
                    /\ groupsLeft' = Tail(groupsLeft)
                    /\ UNCHANGED scheduled
     ELSE /\ loop' = "idle"
          /\ groupsLeft' = Tail(groupsLeft)
          /\ UNCHANGED <<timetables, globalSchedule, teacherStats, unassignedLessons, scheduled>>
  /\ UNCHANGED <<caller, scenario, pc, subjectQueue, call, classesLeft, lessonDetails,
                 periodsToSchedule, doublesScheduled, singlesScheduled, validationPassed>>

\* _scheduleICTLessons
ScheduleICTLessons ==
  Phase("ict", "strictDoubles2", <<Call("ICT", schoolData.days, FALSE)>>)

\* doublePeriodSubjects.filter(r => r.strict): "mixed" is truthy as true is
strictRules2 ==
  SelectSeq(constraints.doublePeriodSubjects, LAMBDA r : r.strict \in {"true", "mixed"})

\* _scheduleStrictDoubles
ScheduleStrictDoubles ==
  Phase("strictDoubles2", "remaining2",
        [i \in DOMAIN strictRules2 |-> Call(strictRules2[i].subject, schoolData.days, FALSE)])

\* _scheduleRemainingLessons of part_002: every subject, in a shuffled order
ScheduleRemainingLessons2 ==
  \E order \in Shuffles(allSubjects) :
    Phase("remaining2", "return",
          [i \in DOMAIN order |-> Call(order[i], schoolData.days, FALSE)])

\* Object.keys(this.schoolData.teachers).forEach: the class whose turn it is
nextClass == allClasses[Min({i \in DOMAIN allClasses : allClasses[i] \in classesLeft})]

lesson2(c, subject) ==
  [className |-> c, subject |-> subject, teacher |-> getTeacherForClassSubject(c, subject)]

toSchedule2(c, subject) ==
  needed(getClassDivision2(c), subject) - getScheduledPeriods(Memory, c, subject)

\* _scheduleAllForSubject of part_002: the body of the forEach over the classes
ForEachClass2 ==
  /\ classesLeft # {}
  /\ classesLeft' = classesLeft \ {nextClass}
  /\ IF /\ getTeacherForClassSubject(nextClass, call.subject) # NoTeacher
        /\ needed(getClassDivision2(nextClass), call.subject) > 0
        /\ toSchedule2(nextClass, call.subject) > 0
     THEN \E st \in scheduleLesson(Progress(Memory, unassignedLessons,
                                            toSchedule2(nextClass, call.subject)),
                                   lesson2(nextClass, call.subject), call.allowedDays,
                                   findRule(call.subject, getClassDivision2(nextClass))) :
            /\ SetMemory(st.m)
            /\ unassignedLessons' = st.un
     ELSE UNCHANGED <<timetables, globalSchedule, teacherStats, unassignedLessons>>
  /\ UNCHANGED <<caller, sync, scenario, pc, subjectQueue, call, loop, lessonDetails,
                 periodsToSchedule,
                 doublesScheduled, singlesScheduled, validationPassed>>

\* _printTeacherStats and the return of this.timetables
Return2 ==
  /\ pc = "return"
  /\ Idle
  /\ pc' = "done"
  /\ UNCHANGED <<caller, sync, scenario, timetables, globalSchedule, teacherStats,
                 unassignedLessons,
                 subjectQueue, call, classesLeft, loop, lessonDetails, periodsToSchedule,
                 doublesScheduled, singlesScheduled, validationPassed>>

Init2 ==
  /\ NoCaller
  /\ scenario \in {"SyncedPE", "SharedRooms", "MixedStructure", "OddStrict", "MixedGroup",
                   "PartSynced"}
  /\ Constructed

Next2 ==
  \/ Initialize2
  \/ ScheduleRestrictedSubjects2
  \/ SchedulePESynchronization
  \/ ForEachGroup
  \/ SyncWhile
  \/ ScheduleICTLessons
  \/ ScheduleStrictDoubles
  \/ ScheduleRemainingLessons2
  \/ ScheduleAllForSubject
  \/ ForEachClass2
  \/ Return2

\* generate() of src/unnamed/part_002
Spec2 == Init2 /\ [][Next2]_vars

\* The (day, period) cells in which class c has P.E.
peCells(c) == {x \in Cells : timetables[c][x[1]][x[2]].subject = "P.E."}

\* C10 (part_002): when generate() returns, the member classes of every group of
\* constraints.peSynchronization have their P.E. Lessons in the same set of
\* (day, period) cells.
C10_SyncedGroupsShareCells ==
  pc = "done" =>
    \A i \in DOMAIN constraints.peSynchronization :
      \A a, b \in Range(constraints.peSynchronization[i]) : peCells(a) = peCells(b)

\* A step that is one call of _scheduleSyncedPeriods
syncCall == loop = "syncWhile" /\ scheduled < neededByGroup

\* The cells of class c that the step changes
written(c) == {x \in Cells : timetables'[c][x[1]][x[2]] # timetables[c][x[1]][x[2]]}

\* The sets of n consecutive periods of day d
windowsOf(d, n) == {{<<d, q>> : q \in p..(p + n - 1)} : p \in PeriodIds}

\* The step gives one window of day d to every class of the group, and to them only
commits(group, n) ==
  /\ \E d \in Range(DayList) : \E w \in windowsOf(d, n) :
       \A c \in Range(group) :
         /\ written(c) = w
         /\ \A x \in w : /\ timetables'[c][x[1]][x[2]].type = "lesson"
                         /\ timetables'[c][x[1]][x[2]].subject = "P.E."
  /\ \A c \in DOMAIN timetables \ Range(group) : written(c) = {}

\* C29 (part_002): a call of _scheduleSyncedPeriods either gives the identical
\* (day, period window) to every class of the group and returns true, or returns
\* false and changes no grid cell, occupancy record or counter; it never commits
\* a window to only some classes of the group.
C29_SyncedAllOrNothing ==
  [][syncCall =>
       \/ /\ scheduled' = scheduled + syncPeriods
          /\ commits(Head(groupsLeft), syncPeriods)
       \/ /\ scheduled' = scheduled
          /\ loop' = "idle"
          /\ timetables' = timetables
          /\ globalSchedule' = globalSchedule
          /\ teacherStats' = teacherStats]_vars

\* A call has committed a window for a group of two classes
C29_Witness ==
  /\ loop = "syncWhile"
  /\ scheduled >= 1
  /\ Len(Head(groupsLeft)) >= 2
  /\ \A c \in Range(Head(groupsLeft)) : Cardinality(peCells(c)) = scheduled

\* A call has failed
syncFailed ==
  \E i \in DOMAIN unassignedLessons : unassignedLessons[i].reason = "Could not find sync P.E. slot"

\* The subjects whose double-period rule has strict === true and lists the
\* division part_002 gives the class
strictFor2(c) ==
  {constraints.doublePeriodSubjects[i].subject :
     i \in {j \in DOMAIN constraints.doublePeriodSubjects :
              /\ constraints.doublePeriodSubjects[j].strict = "true"
              /\ Includes(constraints.doublePeriodSubjects[j].divisions, getClassDivision2(c))}}

\* C23 (part_002): for a subject whose double-period rule is strict === true and
\* a class whose requirement R is odd, when generate() returns the class has
\* exactly R Lessons of the subject or unassignedLessons has an entry for that
\* (class, subject): the odd period is never dropped without a trace.
C23_OddPeriodLeavesATrace ==
  pc = "done" =>
    \A i \in DOMAIN allClasses : \A s \in strictFor2(allClasses[i]) :
      needed(getClassDivision2(allClasses[i]), s) % 2 = 1 =>
        \/ Cardinality({x \in Cells : hasLesson(allClasses[i], x[1], x[2], s)})
             = needed(getClassDivision2(allClasses[i]), s)
        \/ hasDiagnostic(allClasses[i], s)
\* The periods of day d taken by an event that applies to the division
eventTakes(division, d) ==
  {p \in PeriodIds :
     \E j \in DOMAIN schoolData.specialEvents :
       /\ schoolData.specialEvents[j].day = d
       /\ p \in Range(schoolData.specialEvents[j].periodIds)
       /\ \/ schoolData.specialEvents[j].appliesTo.all
          \/ division \in Range(schoolData.specialEvents[j].appliesTo.divisions)}

\* The (class, period) pairs of day d whose cell is a Lesson taught by t
taughtOn(t, d) ==
  {x \in (DOMAIN timetables) \X PeriodIds :
     /\ timetables[x[1]][d][x[2]].type = "lesson"
     /\ timetables[x[1]][d][x[2]].teacher = t}

\* C36 (part_002): in every reachable state teacherStats[t].dailyPeriods[d] is
\* the number of Lesson cells, over all classes, that t teaches on day d; a
\* synchronized placement of n periods for k classes thus adds k * n to the
\* shared teacher's count of the day.
C36_DailyPeriodsCountLessonCells ==
  pc # "initialize" =>
    \A t \in DOMAIN teacherStats : \A d \in Range(DayList) :
      teacherStats[t].dailyPeriods[d] = Cardinality(taughtOn(t, d))

\* A synchronized double for two classes has put four periods on the teacher's day
C36_Witness ==
  /\ pc # "initialize"
  /\ \E t \in DOMAIN teacherStats : \E d \in Range(DayList) : \E p \in PeriodIds :
       /\ teacherStats[t].dailyPeriods[d] = 4
       /\ Cardinality({c \in DOMAIN timetables : <<c, p>> \in taughtOn(t, d)}) = 2
       /\ Cardinality({c \in DOMAIN timetables : <<c, p + 1>> \in taughtOn(t, d)}) = 2

\* C34 (part_002): at every point of generate(), for every class and every
\* subject of which the class's division requires R periods, the grid of the
\* class holds at most R Lessons of the subject, also when a mixed-structure
\* subject is entered with fewer periods left than 2 * doubles + singles.
C34_NeverMoreThanRequired2 ==
  \A c \in DOMAIN timetables : \A s \in Range(allSubjects) :
    needed(getClassDivision2(c), s) > 0 =>
      Cardinality(lessonsOf(c, s)) <= needed(getClassDivision2(c), s)

\* C30 (part_002): every Lesson of a class lies in a period of the lessonSlots of
\* the class's division and not in a period of an event that applies to that
\* division on that day, the classes of a synchronized group after the first
\* included.
C30_LessonsInOwnSlotsOffEvents ==
  \A c \in DOMAIN timetables : \A x \in Cells :
    timetables[c][x[1]][x[2]].type = "lesson" =>
      /\ x[2] \in Range(schoolData.divisionSchedules[getClassDivision2(c)].lessonSlots)
      /\ x[2] \notin eventTakes(getClassDivision2(c), x[1])

\* =========================================================================
\* src/unnamed/part_001 (app.js) and src/TT/generator.worker.js.  The worker
\* imports timetable-generator.js: its handler makes a new TimetableGenerator
\* for each message and runs the generate() modelled by the actions of Next.
\* pc = "idle" says that the worker is between two messages.
\* =========================================================================

\* The fields of the worker's generator and the position of its generate()
generator ==
  <<timetables, globalSchedule, teacherStats, unassignedLessons, pc, subjectQueue, call,
    classesLeft, loop, lessonDetails, periodsToSchedule, doublesScheduled,
    singlesScheduled, validationPassed, sync>>

\* schoolData.specialEvents is an array.  Where it is undefined,
\* _scheduleSpecialEvents throws at this.schoolData.specialEvents.forEach
\* (timetable-generator.js:343) and generate() fails as a whole.
eventsListed == scenario # "NoEventList"

\* getClassDivision of app.js: parseInt(className[0]); -1 stands for NaN
year1(className) ==
  IF className # <<>> /\ IsDigit(className[1]) THEN DigitVal(className[1]) ELSE -1

getClassDivision1(className) ==
  IF year1(className) = -1 THEN "lowerSecondary"
  ELSE IF year1(className) <= 3 THEN "lowerPrimary"
  ELSE IF year1(className) <= 6 THEN "upperPrimary"
  ELSE "lowerSecondary"

\* getPeriodType of app.js
getPeriodType(division, periodId) ==
  IF periodId = schoolData.divisionSchedules[division].breakPeriod THEN "break"
  ELSE IF periodId = schoolData.divisionSchedules[division].lunchPeriod THEN "lunch"
  ELSE "lesson"

Max(S) == CHOOSE x \in S : \A y \in S : y <= x

\* renderClassTimetable: displayPeriods
displayPeriods(division) ==
  LET schedule == schoolData.divisionSchedules[division]
      lastPeriodId == Max(Range(schedule.lessonSlots)
                            \cup {schedule.breakPeriod, schedule.lunchPeriod})
  IN {schoolData.periods[i].id :
        i \in {j \in DOMAIN schoolData.periods :
                 /\ schoolData.periods[j].type # "arrival"
                 /\ schoolData.periods[j].id <= lastPeriodId}}

\* renderClassTimetable: const specialEvent is found
specialEventShown(division, day, periodId) ==
  \E i \in DOMAIN schoolData.specialEvents :
    /\ schoolData.specialEvents[i].day = day
    /\ Includes(schoolData.specialEvents[i].periodIds, periodId)
    /\ \/ schoolData.specialEvents[i].appliesTo.all
       \/ Includes(schoolData.specialEvents[i].appliesTo.divisions, division)

\* renderClassTimetable: the cell reaches the branch `else if (lessonData)` with
\* an entry that has no subject, and getSubjectColor(undefined) reads str.length
colorOfNoSubject(tt, className, division, day, periodId) ==
  /\ ~specialEventShown(division, day, periodId)
  /\ getPeriodType(division, periodId) = "lesson"
  /\ tt[className][day][periodId].type \notin {"none", "lesson"}

\* renderClassTimetable throws a TypeError
renderClassTimetableThrows(tt, className) ==
  /\ className \in DOMAIN tt
  /\ LET division == getClassDivision1(className)
     IN \/ division \notin DOMAIN schoolData.divisionSchedules
        \/ /\ division \in DOMAIN schoolData.divisionSchedules
           /\ \E day \in Range(schoolData.days) : \E periodId \in displayPeriods(division) :
                colorOfNoSubject(tt, className, division, day, periodId)

\* classSelector.value: the first option populateSelectors made
classSelectorValue == allClasses[1]

\* refreshCurrentView throws; renderTeacherTimetable colours the cells of
\* teacherSchedules[teacher] that hold a Lesson only
refreshCurrentViewThrows(tt) ==
  viewMode = "class" /\ renderClassTimetableThrows(tt, classSelectorValue)

\* A generateTimetable that leaves the button enabled
postWithoutDisabling ==
  /\ statusMessage' = "status-info"
  /\ regenerateBtnDisabled' = regenerateBtnDisabled
  /\ workerInbox' = Append(workerInbox, "generate")

\* generateTimetable
generateTimetable ==
  /\ statusMessage' = "status-info"
  /\ regenerateBtnDisabled' = TRUE
  /\ workerInbox' = Append(workerInbox, "generate")

\* init: data.json was loaded; selectors, listeners and the worker's handlers
\* are set up and the first generation is asked for
InitLoaded ==
  /\ appPc = "loading"
  /\ appPc' = "ready"
  /\ generateTimetable
  /\ UNCHANGED <<scenario, fixture, generator, regenerations, viewMode, appTimetables, unassigned,
                 appInbox>>

\* init: fetch, response.json() or populateSelectors threw; the catch block
InitFailed ==
  /\ appPc = "loading"
  /\ appPc' = "failed"
  /\ statusMessage' = "status-error"
  /\ UNCHANGED <<scenario, fixture, generator, regenerations, regenerateBtnDisabled, viewMode,
                 appTimetables, unassigned, workerInbox, appInbox>>

\* A click on the regenerate button: a disabled button dispatches no click
Click ==
  /\ appPc = "ready"
  /\ ~regenerateBtnDisabled
  /\ Len(workerInbox) < MaxPending
  /\ generateTimetable
  /\ UNCHANGED <<scenario, fixture, generator, regenerations, appPc, viewMode, appTimetables,
                 unassigned, appInbox>>

\* The user picks the other view mode; the change listener, once registered,
\* renders the view (and may throw in doing so, which changes nothing else)
ChangeViewMode ==
  /\ viewMode' = IF viewMode = "class" THEN "teacher" ELSE "class"
  /\ UNCHANGED <<scenario, fixture, generator, regenerations, appPc, regenerateBtnDisabled,
                 statusMessage, appTimetables, unassigned, workerInbox, appInbox>>

Response(type, tt, un) == [type |-> type, timetables |-> tt, unassigned |-> un]

\* self.onmessage of the worker, up to the call of generate(): the new instance;
\* where generate() throws, the handler ends there and the error event is raised
WorkerOnMessage ==
  /\ pc = "idle"
  /\ workerInbox # <<>>
  /\ workerInbox' = Tail(workerInbox)
  /\ IF eventsListed
     THEN Construct /\ UNCHANGED appInbox
     ELSE /\ appInbox' = Append(appInbox, Response("error", <<>>, <<>>))
          /\ UNCHANGED generator
  /\ UNCHANGED <<scenario, fixture, regenerations, appPc, regenerateBtnDisabled, statusMessage,
                 viewMode, appTimetables, unassigned>>

\* self.onmessage of the worker, after generate() returned: postMessage; the
\* instance is local to the handler
WorkerPostMessage ==
  /\ pc = "done"
  /\ appInbox' = Append(appInbox, Response("result", timetables, unassignedLessons))
  /\ timetables' = <<>>
  /\ globalSchedule' = <<>>
  /\ teacherStats' = <<>>
  /\ unassignedLessons' = <<>>
  /\ pc' = "idle"
  /\ call' = NoCall
  /\ lessonDetails' = NoLesson
  /\ periodsToSchedule' = 0
  /\ doublesScheduled' = 0
  /\ singlesScheduled' = 0
  /\ validationPassed' = TRUE
  /\ UNCHANGED <<scenario, fixture, sync, subjectQueue, classesLeft, loop, regenerations, appPc,
                 regenerateBtnDisabled, statusMessage, viewMode, appTimetables, unassigned,
                 workerInbox>>

\* generatorWorker.onmessage of app.js: the statements run in order, and the
\* button is enabled only when refreshCurrentView has returned
AppOnMessage ==
  /\ appPc = "ready"
  /\ appInbox # <<>>
  /\ Head(appInbox).type = "result"
  /\ appInbox' = Tail(appInbox)
  /\ appTimetables' = Head(appInbox).timetables
  /\ unassigned' = Head(appInbox).unassigned
  /\ statusMessage' = IF Head(appInbox).unassigned # <<>> THEN "status-warning"
                      ELSE "status-success"
  /\ regenerateBtnDisabled' =
       IF refreshCurrentViewThrows(Head(appInbox).timetables) THEN regenerateBtnDisabled
       ELSE FALSE
  /\ UNCHANGED <<scenario, fixture, generator, regenerations, appPc, viewMode, workerInbox>>

\* generatorWorker.onerror of app.js
AppOnError ==
  /\ appPc = "ready"
  /\ appInbox # <<>>
  /\ Head(appInbox).type = "error"
  /\ appInbox' = Tail(appInbox)
  /\ statusMessage' = "status-error"
  /\ regenerateBtnDisabled' = FALSE
  /\ UNCHANGED <<scenario, fixture, generator, regenerations, appPc, viewMode, appTimetables,
                 unassigned, workerInbox>>

\* The page is loaded: the worker is created and init() awaits data.json
InitApp ==
  /\ scenario \in {"StrictDoubles", "MixedStructure", "NoEventList"}
  /\ timetables = <<>>
  /\ globalSchedule = <<>>
  /\ teacherStats = <<>>
  /\ unassignedLessons = <<>>
  /\ pc = "idle"
  /\ subjectQueue = <<>>
  /\ call = NoCall
  /\ classesLeft = {}
  /\ loop = "idle"
  /\ lessonDetails = NoLesson
  /\ periodsToSchedule = 0
  /\ doublesScheduled = 0
  /\ singlesScheduled = 0
  /\ validationPassed = TRUE
  /\ regenerations = 0
  /\ appPc = "loading"
  /\ regenerateBtnDisabled = FALSE
  /\ statusMessage = "loading"
  /\ viewMode = "class"
  /\ appTimetables = <<>>
  /\ unassigned = <<>>
  /\ workerInbox = <<>>
  /\ appInbox = <<>>
  /\ groupsLeft = <<>>
  /\ scheduled = 0
  /\ seed = NoSeed
  /\ firstRun = <<>>
  /\ lookup = NoLookup

\* The steps of the worker's generate()
Generate ==
  \/ Initialize
  \/ ScheduleSpecialEvents
  \/ ScheduleRestrictedSubjects
  \/ ScheduleSingleResourceSubjects
  \/ ScheduleStrictDoublePeriodSubjects
  \/ SchedulePE
  \/ ScheduleRemainingLessons
  \/ ScheduleAllForSubject
  \/ ForEachClass
  \/ DoubleOnlyLoop
  \/ MixedDoublesLoop
  \/ MixedSinglesLoop
  \/ MixedRestDoublesLoop
  \/ MixedRestSinglesLoop
  \/ DefaultDoublesLoop
  \/ DefaultSinglesLoop
  \/ InjectBreakAndLunch
  \/ FillEmptySlots
  \/ ValidateTimetable

NextApp ==
  \/ InitLoaded
  \/ InitFailed
  \/ Click
  \/ ChangeViewMode
  \/ WorkerOnMessage
  \/ Generate
  \/ WorkerPostMessage
  \/ AppOnMessage
  \/ AppOnError

\* The app and its worker
SpecApp == InitApp /\ [][NextApp]_vars

\* generate() is running in the worker: one of the steps of Generate is enabled
generating == pc \notin {"idle", "done"}

\* The worker's thread runs the handler of a queued message to its end, and the
\* main thread's event loop delivers every queued event and settles the fetch of
\* init(); the user need not act.  The weak fairness of Generate is written with
\* its enabling condition, generating, in the place of ENABLED <<Generate>>_vars.
SpecAppLive ==
  /\ InitApp
  /\ [][NextApp]_vars
  /\ WF_vars(InitLoaded \/ InitFailed)
  /\ WF_vars(WorkerOnMessage)
  /\ (<>[]generating => []<><<Generate>>_vars)
  /\ WF_vars(WorkerPostMessage)
  /\ WF_vars(AppOnMessage)
  /\ WF_vars(AppOnError)

\* The requests posted to the worker and not yet answered to the app's handlers
outstanding ==
  Len(workerInbox) + (IF pc = "idle" THEN 0 ELSE 1) + Len(appInbox)

\* C16: at every moment at most one generation request is outstanding (posted to
\* the worker and not yet answered by a result or an error), and the regenerate
\* button is disabled whenever a request is outstanding, for every interleaving
\* of clicks, results and errors.
C16_OneRequestOutstanding ==
  /\ outstanding <= 1
  /\ outstanding = 1 => regenerateBtnDisabled

\* A result has been shown, the button was clicked again and the second request
\* is with the worker
C16_Witness ==
  /\ appTimetables # <<>>
  /\ statusMessage = "status-info"
  /\ outstanding = 1
  /\ pc \notin {"idle", "initialize"}

\* C17: every generation request the app posts is eventually followed by one
\* response of the worker (a result or an error), after which the regenerate
\* button is enabled again: the button never stays disabled forever.
C17_ButtonEnabledAgain == regenerateBtnDisabled ~> ~regenerateBtnDisabled

\* ------------------------------------------- the revisions' _getClassDivision
\* The highest year a class name is asked about, and the letters that may follow
MaxYear == 11

NameLetters == {"A", "b"}

\* The decimal digits of n, as class names carry them
DigitsOf(n) == IF n < 10 THEN <<Digits[n + 1]>> ELSE <<Digits[(n \div 10) + 1], Digits[(n % 10) + 1]>>

\* The class names of the form N or N followed by a letter
ClassNames ==
  {DigitsOf(n) : n \in 1..MaxYear} \cup {DigitsOf(n) \o <<l>> : n \in 1..MaxYear, l \in NameLetters}

\* this._getClassDivision(className) of timetable-generator.js
AskSampa ==
  /\ lookup.className # <<>>
  /\ lookup.sampa = ""
  /\ lookup' = [lookup EXCEPT !.sampa = getClassDivision(lookup.className)]
  /\ UNCHANGED <<scenario, generator, regenerations, appPc, regenerateBtnDisabled, statusMessage,
                 viewMode, appTimetables, unassigned, workerInbox, appInbox, seed, firstRun>>

\* getClassDivision(className) of app.js
AskApp ==
  /\ lookup.className # <<>>
  /\ lookup.app = ""
  /\ lookup' = [lookup EXCEPT !.app = getClassDivision1(lookup.className)]
  /\ UNCHANGED <<scenario, generator, regenerations, appPc, regenerateBtnDisabled, statusMessage,
                 viewMode, appTimetables, unassigned, workerInbox, appInbox, seed, firstRun>>

\* this._getClassDivision(className) of part_002
AskPart002 ==
  /\ lookup.className # <<>>
  /\ lookup.part002 = ""
  /\ lookup' = [lookup EXCEPT !.part002 = getClassDivision2(lookup.className)]
  /\ UNCHANGED <<scenario, generator, regenerations, appPc, regenerateBtnDisabled, statusMessage,
                 viewMode, appTimetables, unassigned, workerInbox, appInbox, seed, firstRun>>

InitNames ==
  /\ Standalone
  /\ scenario = "SharedTeacher"
  /\ Constructed
  /\ seed = NoSeed
  /\ firstRun = <<>>
  /\ lookup \in {[NoLookup EXCEPT !.className = n] : n \in ClassNames}

NextNames ==
  \/ AskSampa
  \/ AskApp
  \/ AskPart002

\* _getClassDivision of each revision, asked about one class name
SpecNames == InitNames /\ [][NextNames]_vars

\* The division of year N by the naming convention
divisionByYear(n) ==
  IF n <= 3 THEN "lowerPrimary"
  ELSE IF n <= 6 THEN "upperPrimary"
  ELSE IF n <= 9 THEN "lowerSecondary"
  ELSE "upperSecondary"

\* C27 (part_002): for every year N in 1..11, _getClassDivision of part_002 gives
\* a class named N, or N followed by a letter, lowerPrimary for N in 1..3,
\* upperPrimary for 4..6, lowerSecondary for 7..9 and upperSecondary for 10..11,
\* which is what _getClassDivision of timetable-generator.js gives for the name.
C27_DivisionFollowsYear ==
  \A n \in 1..MaxYear :
    (/\ lookup.part002 # ""
     /\ lookup.className \in {DigitsOf(n)} \cup {DigitsOf(n) \o <<l>> : l \in NameLetters})
    => /\ lookup.part002 = divisionByYear(n)
       /\ lookup.sampa # "" => lookup.part002 = lookup.sampa
====
